---- MODULE Spec2Model ----
(***************************************************************************)
(* Model of the text-normalisation tools of TheButton (pyRevit):           *)
(*   lib/exception_manager.py          - three-tier exception catalogue    *)
(*   Convert To Lowercase/script.py    - sentence-case conversion of notes *)
(*                                                                         *)
(* Text is a sequence of characters; a character is a one-element string,  *)
(* except the non-ASCII ones, which carry a name: "sup2" (U+00B2),         *)
(* "sup3" (U+00B3), "rsquo" (U+2019), "sdot" (U+FE52), "bull" (U+2022),    *)
(* and "nl" for the line feed.                                             *)
(* Regular expressions follow IronPython 2.7 (.NET): \w is letters,        *)
(* digits and "_"; the superscripts, "rsquo" and "sdot" are not \w.        *)
(***************************************************************************)
EXTENDS Integers, Sequences, FiniteSets, TLC

VARIABLES
    system_file,    \* content of system_exceptions.json
    project_file,   \* content of <model>_exceptions.json
    cache,          \* ExceptionManager._cache
    dict_order,     \* iteration order of the interpreter's plain dicts
    load_result,    \* outcome of the last load_all call
    notes,          \* the TextNotes of the document: text and grouped flag
    old_texts,      \* the texts the last run of the converter read
    runs,           \* runs of the converter so far
    updated,        \* 'Updated' count the last run reported
    skipped,        \* 'Skipped (grouped)' count the last run reported
    txn,            \* how the last run's transaction ended, and the note that raised
    assigned,       \* the notes whose Text the last run assigned
    seg_line,       \* a line handed to the sentence segmenter
    sentences,      \* the (body, delimiter) pairs it returned
    protected,      \* what protect_abbrev returned for the line
    restored,       \* what restore_abbrev returned for that
    word_token,     \* a word token handed to ExceptionApplier.enforce
    enforced,       \* what enforce returned for it
    flat_list,      \* the list the last maintenance operation read
    op,             \* the last maintenance operation and its outcome
    logger,         \* the logger 'ExceptionsManager': handlers, filters, _initialized
    em_module,      \* exception_manager in sys.modules: absent, importing, loaded
    log_file,       \* the log file of the month: exists, header written, records
    copies,         \* how many times the last record was written to the file
    conv_line,      \* a line of a note, as convert_text_note_text iterates it
    cased,          \* what apply_strict_sentence_case returned for the line
    conv,           \* the values of the loop body of convert_text_note_text for it
    sessions        \* the Configure Exceptions sessions open on the project file

load_vars == <<system_file, project_file, cache, dict_order, load_result>>
note_vars == <<notes, old_texts, runs, updated, skipped, txn, assigned>>
seg_vars  == <<seg_line, sentences, protected, restored>>
tok_vars  == <<word_token, enforced>>
maint_vars == <<flat_list, op>>
log_vars  == <<logger, em_module, log_file, copies>>
line_vars == <<conv_line, cased, conv>>
sess_vars == <<sessions>>

vars == <<load_vars, note_vars, seg_vars, tok_vars, maint_vars, log_vars, line_vars, sess_vars>>

-----------------------------------------------------------------------------
(* Characters                                                              *)

UpperAZ == <<"A","B","C","D","E","F","G","H","I","J","K","L","M","N","O","P","Q","R","S","T","U","V","W","X","Y","Z">>
LowerAZ == <<"a","b","c","d","e","f","g","h","i","j","k","l","m","n","o","p","q","r","s","t","u","v","w","x","y","z">>

UpperSet == {UpperAZ[i] : i \in 1..26}
LowerSet == {LowerAZ[i] : i \in 1..26}
DigitSet == {"0","1","2","3","4","5","6","7","8","9"}
SpaceSet == {" ", "nl"}

LowerFn == [c \in UpperSet |-> LowerAZ[CHOOSE i \in 1..26 : UpperAZ[i] = c]]
UpperFn == [c \in LowerSet |-> UpperAZ[CHOOSE i \in 1..26 : LowerAZ[i] = c]]

\* unicode.lower() / unicode.upper() of one character
Lower(c) == IF c \in UpperSet THEN LowerFn[c] ELSE c
Upper(c) == IF c \in LowerSet THEN UpperFn[c] ELSE c

LowerStr(s) == [i \in 1..Len(s) |-> Lower(s[i])] \o <<>>
UpperStr(s) == [i \in 1..Len(s) |-> Upper(s[i])] \o <<>>

IsAlpha(c) == c \in UpperSet \/ c \in LowerSet      \* [A-Za-z]
IsDigit(c) == c \in DigitSet                        \* \d
IsSpace(c) == c \in SpaceSet                        \* \s
IsWord(c)  == IsAlpha(c) \/ IsDigit(c) \/ c = "_"   \* \w

Reverse(s) == [i \in 1..Len(s) |-> s[Len(s) + 1 - i]] \o <<>>

\* "x in s" for a character / an element
Contains(s, c) == \E i \in 1..Len(s) : s[i] = c

\* ''.join(ss[lo..hi]), joined by halves
RECURSIVE ConcatRange(_, _, _)
ConcatRange(ss, lo, hi) ==
    IF lo > hi THEN <<>>
    ELSE IF lo = hi THEN ss[lo]
    ELSE ConcatRange(ss, lo, (lo + hi) \div 2) \o ConcatRange(ss, (lo + hi) \div 2 + 1, hi)

Concat(ss) == ConcatRange(ss, 1, Len(ss))

\* items() of a plain dict: the order is the interpreter's
DictItems(d, ord) == IF ord = "insertion" THEN d ELSE Reverse(d)

-----------------------------------------------------------------------------
(* exception_manager.py : the default table (an excerpt, in source order)  *)

DEFAULT_EXCEPTIONS == <<
  (* Bolt Sizes *)
  [cat |-> <<"B","o","l","t"," ","S","i","z","e","s">>,
   items |-> << <<"M","S">> >>],
  (* Cost & Measurement Sums *)
  [cat |-> <<"C","o","s","t"," ","&"," ","M","e","a","s","u","r","e","m","e","n","t"," ","S","u","m","s">>,
   items |-> << <<"L",".","S",".">>, <<"P","C"," ","S","u","m">> >>],
  (* Discipline & Coordination Tags *)
  [cat |-> <<"D","i","s","c","i","p","l","i","n","e"," ","&"," ","C","o","o","r","d","i","n","a","t","i","o","n"," ","T","a","g","s">>,
   items |-> << <<"T",".","B",".","C",".">> >>],
  (* Drawing & Layout Abbreviations *)
  [cat |-> <<"D","r","a","w","i","n","g"," ","&"," ","L","a","y","o","u","t"," ","A","b","b","r","e","v","i","a","t","i","o","n","s">>,
   items |-> << <<"c","/","c">>, <<"C","R","S">>, <<"C","R","S",".">> >>],
  (* General Note Abbreviations *)
  [cat |-> <<"G","e","n","e","r","a","l"," ","N","o","t","e"," ","A","b","b","r","e","v","i","a","t","i","o","n","s">>,
   items |-> << <<"u","n","o">>, <<"u",".","n",".","o",".">> >>],
  (* General Notes *)
  [cat |-> <<"G","e","n","e","r","a","l"," ","N","o","t","e","s">>,
   items |-> << <<"A","r","c","h","i","t","e","c","t">>, <<"A","s"," ","B","u","i","l","t">> >>],
  (* Material & Element Abbreviations *)
  [cat |-> <<"M","a","t","e","r","i","a","l"," ","&"," ","E","l","e","m","e","n","t"," ","A","b","b","r","e","v","i","a","t","i","o","n","s">>,
   items |-> << <<"m","s">>, <<"P","C">> >>],
  (* Spans *)
  [cat |-> <<"S","p","a","n","s">>,
   items |-> << <<"L","/","2","5","0">> >>],
  (* Section Profiles & Steel Sections *)
  [cat |-> <<"S","e","c","t","i","o","n"," ","P","r","o","f","i","l","e","s"," ","&"," ","S","t","e","e","l"," ","S","e","c","t","i","o","n","s">>,
   items |-> << <<"S","H","S">>, <<"U","B">>, <<"X">>, <<"D">> >>],
  (* Standards & Codes *)
  [cat |-> <<"S","t","a","n","d","a","r","d","s"," ","&"," ","C","o","d","e","s">>,
   items |-> << <<"B","S">>, <<"E","N">> >>],
  (* Units & Measurements *)
  [cat |-> <<"U","n","i","t","s"," ","&"," ","M","e","a","s","u","r","e","m","e","n","t","s">>,
   items |-> << <<"N">>, <<"k","N">>, <<"k","N","/","m","sup2">>, <<"k","N","/","m">>, <<"m">>, <<"m","sup2">>, <<"m","m">>, <<"m","m","sup2">> >>]
>>

-----------------------------------------------------------------------------
(* JSON values and files                                                   *)

JStr(s)  == [t |-> "str", v |-> s]
JNum     == [t |-> "num", v |-> <<>>]
JArr(xs) == [t |-> "arr", v |-> xs]
JObj(kv) == [t |-> "obj", v |-> kv]            \* kv: sequence of [k, val]
NoFile   == [t |-> "missing", v |-> <<>>]      \* the file does not exist
BadFile  == [t |-> "garbage", v |-> <<>>]      \* exists, json.load raises

\* ExceptionManager._load_json: the parsed value, {} when open/parse fails
ExceptionManager_load_json(file) ==
    IF file.t \in {"missing", "garbage"} THEN JObj(<<>>) ELSE file

\* ExceptionManager._get_project_path: the file is created as [] when
\* missing; an existing file is only inspected
get_project_path_effect(file) ==
    IF file.t = "missing" THEN JArr(<<>>) ELSE file

-----------------------------------------------------------------------------
(* exception_manager.py : ExceptionManager.load_all and the views          *)

\* the value of _cache before the first load and after clear_cache
None == [loaded |-> FALSE, merged |-> <<>>, project |-> <<>>]

\* tier 1: merged[cat] = items[:] for every category of the default table
DefaultTier(ord) ==
    LET D == DictItems(DEFAULT_EXCEPTIONS, ord)
    IN  [i \in 1..Len(D) |->
            [cat |-> D[i].cat,
             items |-> [j \in 1..Len(D[i].items) |-> JStr(D[i].items[j])] \o <<>>]]
        \o <<>>

\* merged.setdefault(cat, []).extend(items)
ExtendCategory(merged, cat, items) ==
    IF \E i \in 1..Len(merged) : merged[i].cat = cat
    THEN [i \in 1..Len(merged) |->
            IF merged[i].cat = cat
            THEN [cat |-> cat, items |-> merged[i].items \o items]
            ELSE merged[i]] \o <<>>
    ELSE Append(merged, [cat |-> cat, items |-> items])

\* tier 2: every list-valued entry of the system object extends its category
RECURSIVE SystemTier(_, _)
SystemTier(merged, kvs) ==
    IF kvs = <<>> THEN merged
    ELSE LET e == Head(kvs)
         IN  SystemTier(IF e.val.t = "arr"
                        THEN ExtendCategory(merged, e.k, e.val.v)
                        ELSE merged,
                        Tail(kvs))

\* RemoveProject with the comparison made on the raw strings (x != phrase)
RECURSIVE RemoveProjectExact(_, _)
RemoveProjectExact(items, project_items) ==
    IF items = <<>> THEN <<>>
    ELSE (IF \A k \in 1..Len(project_items) : Head(items) # project_items[k]
          THEN <<Head(items)>> ELSE <<>>)
         \o RemoveProjectExact(Tail(items), project_items)

\* for phrase in project_items: lst[:] = [x for x in lst if x.lower() != low]
RECURSIVE RemoveProject(_, _)
RemoveProject(items, project_items) ==
    IF items = <<>> THEN <<>>
    ELSE (IF \A k \in 1..Len(project_items) :
                 LowerStr(Head(items)) # LowerStr(project_items[k])
          THEN <<Head(items)>> ELSE <<>>)
         \o RemoveProject(Tail(items), project_items)

\* DedupCategory with "seen" holding the raw strings (x in seen)
RECURSIVE DedupCategoryExact(_, _)
DedupCategoryExact(items, seen) ==
    IF items = <<>> THEN <<>>
    ELSE IF Head(items) \in seen
         THEN DedupCategoryExact(Tail(items), seen)
         ELSE <<Head(items)>>
              \o DedupCategoryExact(Tail(items), seen \cup {Head(items)})

\* de-duplicate one category, case-insensitively, first occurrence kept
RECURSIVE DedupCategory(_, _)
DedupCategory(items, seen) ==
    IF items = <<>> THEN <<>>
    ELSE LET low == LowerStr(Head(items))
         IN  IF low \in seen
             THEN DedupCategory(Tail(items), seen)
             ELSE <<Head(items)>> \o DedupCategory(Tail(items), seen \cup {low})

\* load_all on a cache miss: whether it raises, the catalogue it caches,
\* and the project file as _get_project_path leaves it
load_all(sysfile, projfile, ord) ==
    LET sys       == ExceptionManager_load_json(sysfile)
        sys_ok    == sys.t = "obj"                       \* .items() exists
        tier2     == SystemTier(DefaultTier(ord),
                                IF sys_ok THEN DictItems(sys.v, ord) ELSE <<>>)
        projfile2 == get_project_path_effect(projfile)
        raw       == ExceptionManager_load_json(projfile2)
        raw_items == IF raw.t = "arr" THEN raw.v ELSE <<>>
        strs_ok   == /\ \A k \in 1..Len(raw_items) : raw_items[k].t = "str"
                     /\ \A i \in 1..Len(tier2) : \A j \in 1..Len(tier2[i].items) :
                            tier2[i].items[j].t = "str"      \* x.lower() exists
        project   == [k \in 1..Len(raw_items) |-> raw_items[k].v] \o <<>>
        merged    == [i \in 1..Len(tier2) |->
                        [cat |-> tier2[i].cat,
                         items |-> DedupCategory(
                             RemoveProject([j \in 1..Len(tier2[i].items) |->
                                                tier2[i].items[j].v] \o <<>>, project),
                             {})]] \o <<>>
    IN  IF ~sys_ok
        THEN [raised |-> TRUE, cache |-> None, projfile |-> projfile]
        ELSE IF ~strs_ok
        THEN [raised |-> TRUE, cache |-> None, projfile |-> projfile2]
        ELSE [raised |-> FALSE, projfile |-> projfile2,
              cache |-> [loaded |-> TRUE, merged |-> merged, project |-> project]]

HasKey(d, k) == \E i \in 1..Len(d) : d[i].low = k
Lookup(d, k) == d[CHOOSE i \in 1..Len(d) : d[i].low = k].canon

\* all literals of the merged categories, in category order
RECURSIVE MergedLiterals(_)
MergedLiterals(merged) ==
    IF merged = <<>> THEN <<>>
    ELSE Head(merged).items \o MergedLiterals(Tail(merged))

\* get_single_literals_map: the OrderedDict {lower: canonical} of the
\* single-word literals.  A key keeps the place of its first insertion; a
\* project literal overwrites the value of its key (single[low] = phrase), a
\* merged literal is skipped when its key is present.
get_single_literals_map(data) ==
    LET np        == Len(data.project)
        all       == data.project \o MergedLiterals(data.merged)
        Single(i) == ~Contains(all[i], " ")
        Key(i)    == LowerStr(all[i])
        First(i)  == Single(i) /\ \A j \in 1..(i - 1) : Single(j) => Key(j) # Key(i)
        Val(i)    == IF i <= np
                     THEN all[CHOOSE j \in i..np :
                                 /\ Single(j) /\ Key(j) = Key(i)
                                 /\ \A h \in (j + 1)..np : Single(h) => Key(h) # Key(i)]
                     ELSE all[i]
        idx       == SelectSeq([i \in 1..Len(all) |-> i], LAMBDA i : First(i))
    IN  [n \in 1..Len(idx) |-> [low |-> Key(idx[n]), canon |-> Val(idx[n])]] \o <<>>

-----------------------------------------------------------------------------
(* Regular-expression helpers.  The operators below are written position   *)
(* by position: the result character at k is a function of the input.      *)

\* the character at position i, "" outside the text
At(s, i) == IF i >= 1 /\ i <= Len(s) THEN s[i] ELSE ""

\* \b between positions i-1 and i
WordBoundary(s, i) == IsWord(At(s, i - 1)) # IsWord(At(s, i))

\* re.escape(pat) with re.I, matched at position i
MatchCI(s, i, pat) ==
    /\ i >= 1
    /\ i + Len(pat) - 1 <= Len(s)
    /\ \A k \in 1..Len(pat) : Lower(s[i + k - 1]) = Lower(pat[k])

\* a match of the literal pattern at i, with the \b anchors asked for
LitMatchAt(s, i, pat, lb, rb) ==
    /\ MatchCI(s, i, pat)
    /\ lb => WordBoundary(s, i)
    /\ rb => WordBoundary(s, i + Len(pat))

\* re.sub scans left to right and its matches do not overlap: the match at i
\* is taken unless a taken match that starts before i covers i
RECURSIVE LitTaken(_, _, _, _, _)
LitTaken(s, i, pat, lb, rb) ==
    /\ LitMatchAt(s, i, pat, lb, rb)
    /\ \A j \in 1..(i - 1) :
           (j + Len(pat) > i /\ LitMatchAt(s, j, pat, lb, rb))
               => ~LitTaken(s, j, pat, lb, rb)

\* the start positions of the matches re.sub replaces
LitStarts(s, pat, lb, rb) ==
    LET cand == {i \in 1..(Len(s) - Len(pat) + 1) : LitMatchAt(s, i, pat, lb, rb)}
    IN  {i \in cand : LitTaken(s, i, pat, lb, rb)}

\* rx.sub(canon, s) for a literal pattern: canon has the length of pat
SubLit(s, pat, canon, lb, rb) ==
    LET starts == LitStarts(s, pat, lb, rb)
    IN  IF starts = {} \/ pat = <<>> THEN s
        ELSE [k \in 1..Len(s) |->
                IF \E i \in starts : i <= k /\ k < i + Len(pat)
                THEN canon[k + 1 - (CHOOSE i \in starts : i <= k /\ k < i + Len(pat))]
                ELSE s[k]] \o <<>>

-----------------------------------------------------------------------------
(* script.py : sentence segmentation helpers                               *)

s_uno == <<"u",".","n",".","o",".">>
s_tbc == <<"t",".","b",".","c",".">>

NO_SENTENCE_DOT == <<s_uno, s_tbc>>
ABBR_SAFE_DOT   == "sdot"

\* one round of protect_abbrev: (?i)\b<abbr>\b, dots of the match made safe
ProtectOne(text, abbr) ==
    LET starts == LitStarts(text, abbr, TRUE, TRUE)
    IN  IF starts = {} THEN text
        ELSE [k \in 1..Len(text) |->
                IF text[k] = "." /\ \E i \in starts : i <= k /\ k < i + Len(abbr)
                THEN ABBR_SAFE_DOT ELSE text[k]] \o <<>>

protect_abbrev(text) ==
    ProtectOne(ProtectOne(text, NO_SENTENCE_DOT[1]), NO_SENTENCE_DOT[2])

\* restore_abbrev replacing the first safe dot only
restore_abbrevFirst(text) ==
    [k \in 1..Len(text) |->
        IF text[k] = ABBR_SAFE_DOT /\ \A j \in 1..(k - 1) : text[j] # ABBR_SAFE_DOT
        THEN "." ELSE text[k]] \o <<>>

restore_abbrev(text) ==
    [k \in 1..Len(text) |-> IF text[k] = ABBR_SAFE_DOT THEN "." ELSE text[k]] \o <<>>

\* text.splitlines(True): the lines with their line ends
splitlines(text) ==
    LET n      == Len(text)
        starts == SelectSeq([i \in 1..n |-> i],
                            LAMBDA i : i = 1 \/ text[i - 1] = "nl")
        End(m) == IF m < Len(starts) THEN starts[m + 1] - 1 ELSE n
    IN  [m \in 1..Len(starts) |-> SubSeq(text, starts[m], End(m))] \o <<>>

\* is_bulleted_or_numbered_line: ^\s*(?:\d+\.\s+|[-*bull]\s+)
is_bulleted_or_numbered_line(line) ==
    LET n == Len(line)
        p == CHOOSE i \in 1..(n + 1) :
                 /\ \A j \in 1..(i - 1) : IsSpace(line[j])
                 /\ ~IsSpace(At(line, i))
        d == CHOOSE i \in p..(n + 1) :
                 /\ \A j \in p..(i - 1) : IsDigit(line[j])
                 /\ ~IsDigit(At(line, i))
    IN  \/ d > p /\ At(line, d) = "." /\ IsSpace(At(line, d + 1))
        \/ At(line, p) \in {"-", "*", "bull"} /\ IsSpace(At(line, p + 1))

\* rstrip('.')
RStripDots(lit) ==
    SubSeq(lit, 1, CHOOSE e \in 0..Len(lit) :
                       /\ \A j \in (e + 1)..Len(lit) : lit[j] = "."
                       /\ At(lit, e) # ".")

\* _DOTTED_LITERALS: the stems of the single-word literals that end in a dot
DottedLiterals(data) ==
    LET smap == get_single_literals_map(data)
    IN  {RStripDots(smap[i].canon) : i \in {j \in 1..Len(smap) :
             smap[j].canon # <<>> /\ smap[j].canon[Len(smap[j].canon)] = "."}}

\* the lookbehind of SENT_END at position i: the text before i ends with
\* \b<stem>\. for one of the stems
SentEndLookbehind(text, i, stems) ==
    \E stem \in stems :
        /\ At(text, i - 1) = "."
        /\ MatchCI(text, i - 1 - Len(stem), stem)
        /\ WordBoundary(text, i - 1 - Len(stem))

\* SENT_END without its \s+ : any mark outside the lookbehind ends a sentence
SentEndAtAnyMark(text, i, stems) ==
    /\ At(text, i) \in {".", "?", "!"}
    /\ ~SentEndLookbehind(text, i, stems)

\* SENT_END matches at i: (?<!\b(?:stems)\.)[.?!]\s+
SentEndAt(text, i, stems) ==
    /\ At(text, i) \in {".", "?", "!"}
    /\ IsSpace(At(text, i + 1))
    /\ ~SentEndLookbehind(text, i, stems)

\* the last position of the delimiter that starts at i
DelimEnd(text, i) ==
    CHOOSE e \in i..Len(text) :
        /\ \A j \in (i + 1)..e : IsSpace(text[j])
        /\ ~IsSpace(At(text, e + 1))

\* split_into_sentences: the (body, delimiter) pairs
split_into_sentences(text, stems) ==
    LET n      == Len(text)
        ends   == SelectSeq([i \in 1..n |-> i], LAMBDA i : SentEndAt(text, i, stems))
        From(m) == IF m = 1 THEN 1 ELSE DelimEnd(text, ends[m - 1]) + 1
    IN  [m \in 1..(Len(ends) + 1) |->
            IF m <= Len(ends)
            THEN [body  |-> SubSeq(text, From(m), ends[m] - 1),
                  delim |-> SubSeq(text, ends[m], DelimEnd(text, ends[m]))]
            ELSE [body |-> SubSeq(text, From(m), n), delim |-> <<>>]] \o <<>>

\* a sentence body with its first character upper-cased and the rest lower()
SentenceCaseBodyFirst(seg) ==
    [k \in 1..Len(seg) |-> IF k = 1 THEN Upper(seg[k]) ELSE Lower(seg[k])] \o <<>>

\* one sentence body of apply_strict_sentence_case: the first whitespace-
\* separated token with an ASCII letter gets tok[:1].upper()+tok[1:].lower(),
\* every other token lower()
SentenceCaseBody(seg) ==
    LET n      == Len(seg)
        alphas == {j \in 1..n : IsAlpha(seg[j])}
        first  == CHOOSE j \in alphas : \A h \in alphas : j <= h
        cap    == CHOOSE t \in 1..first :
                      /\ \A h \in t..first : ~IsSpace(seg[h])
                      /\ IsSpace(At(seg, t - 1)) \/ t = 1
    IN  IF alphas = {} THEN LowerStr(seg)
        ELSE [k \in 1..n |-> IF k = cap THEN Upper(seg[k]) ELSE Lower(seg[k])] \o <<>>

apply_strict_sentence_case(line, stems) ==
    LET segments == split_into_sentences(line, stems)
    IN  Concat([m \in 1..Len(segments) |->
                   SentenceCaseBody(segments[m].body) \o segments[m].delim] \o <<>>)

-----------------------------------------------------------------------------
(* exception_manager.py : the replacement rules, script.py : restore_literals *)

\* the maximal run of characters of a class that starts at i ends at RunEnd
RunEnd(s, i, Cls(_)) ==
    CHOOSE e \in (i - 1)..Len(s) :
        /\ \A j \in i..e : Cls(s[j])
        /\ ~Cls(At(s, e + 1))

\* the maximal run of characters of a class that ends at i starts at RunStart
RunStart(s, i, Cls(_)) ==
    CHOOSE b \in 1..(i + 1) :
        /\ \A j \in b..i : Cls(s[j])
        /\ ~Cls(At(s, b - 1))

IsAlnum(c) == IsAlpha(c) \/ IsDigit(c)

\* ^[A-Za-z0-9]+$
IsPlain(low) == low # <<>> /\ \A i \in 1..Len(low) : IsAlnum(low[i])

get_multi_word_literals(data) ==
    LET np      == Len(data.project)
        all     == data.project \o MergedLiterals(data.merged)
        Multi(i) == Contains(all[i], " ")
        Keep(i) == /\ Multi(i)
                   /\ i > np => \A j \in 1..(i - 1) :
                                   Multi(j) => LowerStr(all[j]) # LowerStr(all[i])
        multi   == SelectSeq([i \in 1..Len(all) |-> i], LAMBDA i : Keep(i))
        phrases == [m \in 1..Len(multi) |-> all[multi[m]]] \o <<>>
        lens    == {Len(phrases[m]) : m \in 1..Len(phrases)}
        longest == IF lens = {} THEN 0 ELSE CHOOSE l \in lens : \A h \in lens : h <= l
    IN  \* sorted(multi, key=len, reverse=True): stable, longest first
        Concat([k \in 1..longest |->
                   SelectSeq(phrases, LAMBDA ph : Len(ph) = longest + 1 - k)] \o <<>>)

\* a rule of REGEX_MAP: a literal pattern with its anchors, or the quantity rule
LitRule(pat, canon, lb, rb) == [kind |-> "lit", pat |-> pat, canon |-> canon,
                                lb |-> lb, rb |-> rb]
QtyRule == [kind |-> "qty", pat |-> <<>>, canon |-> <<>>, lb |-> TRUE, rb |-> FALSE]

\* the rule list with the multi-word phrases put in front of the single words
get_single_regexpsMultiFirst(data, ord) ==
    LET smap    == get_single_literals_map(data)
        plain   == DictItems(SelectSeq(smap, LAMBDA e : IsPlain(e.low)), ord)
        special == DictItems(SelectSeq(smap, LAMBDA e : ~IsPlain(e.low)), ord)
        multi   == get_multi_word_literals(data)
    IN  [i \in 1..Len(multi) |-> LitRule(multi[i], multi[i], FALSE, FALSE)]
        \o [i \in 1..Len(plain) |-> LitRule(plain[i].low, plain[i].canon, TRUE, TRUE)]
        \o [i \in 1..Len(special) |-> LitRule(special[i].low, special[i].canon, FALSE, FALSE)]
        \o <<QtyRule,
             LitRule(s_uno, s_uno, TRUE, FALSE),
             LitRule(s_tbc, <<"T",".","B",".","C",".">>, TRUE, FALSE)>>

get_single_regexps(data, ord) ==
    LET smap    == get_single_literals_map(data)
        plain   == DictItems(SelectSeq(smap, LAMBDA e : IsPlain(e.low)), ord)
        special == DictItems(SelectSeq(smap, LAMBDA e : ~IsPlain(e.low)), ord)
        multi   == get_multi_word_literals(data)
    IN  [i \in 1..Len(plain) |-> LitRule(plain[i].low, plain[i].canon, TRUE, TRUE)]
        \o [i \in 1..Len(special) |-> LitRule(special[i].low, special[i].canon, FALSE, FALSE)]
        \o [i \in 1..Len(multi) |-> LitRule(multi[i], multi[i], FALSE, FALSE)]
        \o <<QtyRule,
             LitRule(s_uno, s_uno, TRUE, FALSE),
             LitRule(s_tbc, <<"T",".","B",".","C",".">>, TRUE, FALSE)>>

\* the matches of \b(\d+)\s*No\.? : the position of the N of each match
QtyMatches(s) ==
    {k \in 1..Len(s) :
        /\ Lower(s[k]) = "n"
        /\ Lower(At(s, k + 1)) = "o"
        /\ LET w == RunStart(s, k - 1, IsSpace) - 1
           IN  /\ IsDigit(At(s, w))
               /\ ~IsWord(At(s, RunStart(s, w, IsDigit) - 1))}

\* the quantity rule with the matched whitespace left in place
QtySubKeepSpace(s) ==
    LET ns == QtyMatches(s)
    IN  [k \in 1..Len(s) |->
            IF k \in ns THEN "N" ELSE IF k - 1 \in ns THEN "o" ELSE s[k]] \o <<>>

\* rx.sub of the quantity rule: digits + 'No' + the dot when one was matched
QtySub(s) ==
    LET ns   == QtyMatches(s)
        Del(k) == IsSpace(s[k]) /\ RunEnd(s, k, IsSpace) + 1 \in ns
        idx  == SelectSeq([k \in 1..Len(s) |-> k], LAMBDA k : ~Del(k))
    IN  IF ns = {} THEN s
        ELSE [m \in 1..Len(idx) |->
                IF idx[m] \in ns THEN "N"
                ELSE IF idx[m] - 1 \in ns THEN "o"
                ELSE s[idx[m]]] \o <<>>

ApplyRule(line, rule) ==
    IF rule.kind = "qty" THEN QtySub(line)
    ELSE SubLit(line, rule.pat, rule.canon, rule.lb, rule.rb)

\* for rx, canon in REGEX_MAP.items(): line = rx.sub(canon, line)
\* the rules lo..hi applied in their order, the first half before the second
RECURSIVE ApplyRules(_, _, _, _)
ApplyRules(line, rules, lo, hi) ==
    IF lo > hi \/ line = <<>> THEN line
    ELSE IF lo = hi THEN ApplyRule(line, rules[lo])
    ELSE ApplyRules(ApplyRules(line, rules, lo, (lo + hi) \div 2),
                    rules, (lo + hi) \div 2 + 1, hi)

s_bs == <<"b","s">>
s_en == <<"e","n">>

\* the rules restore_literals applies, in its order: every rule of REGEX_MAP,
\* then \bbs\b -> BS, \ben\b -> EN
RestoreRules(regex_map) ==
    regex_map \o <<LitRule(s_bs, <<"B","S">>, TRUE, TRUE),
                   LitRule(s_en, <<"E","N">>, TRUE, TRUE)>>

restore_literals(line, regex_map) ==
    LET rules == RestoreRules(regex_map)
    IN  ApplyRules(line, rules, 1, Len(rules))

-----------------------------------------------------------------------------
(* script.py : tokenize_with_punct                                         *)

IsWordCh(c)  == IsAlnum(c) \/ c \in {"&", "/"}          \* [A-Za-z0-9&/]
IsTailCh(c)  == c \in {"=", ")", ";", ":", ","}         \* [=);:,]
IsOtherCh(c) == c # "" /\ ~IsWord(c) /\ ~IsSpace(c)     \* [^\w\s]

\* [A-Za-z](?:\.[A-Za-z])+\.? at p
AbbrAt(s, p) == IsAlpha(At(s, p)) /\ At(s, p + 1) = "." /\ IsAlpha(At(s, p + 2))

AbbrEnd(s, p) ==
    LET m  == CHOOSE k \in 1..Len(s) :
                  /\ \A j \in 1..k : At(s, p + 2 * j - 1) = "." /\ IsAlpha(At(s, p + 2 * j))
                  /\ ~(At(s, p + 2 * k + 1) = "." /\ IsAlpha(At(s, p + 2 * k + 2)))
        e0 == p + 2 * m
    IN  IF At(s, e0 + 1) = "." THEN e0 + 1 ELSE e0

Tok(is_word, s, a, b) == [w |-> is_word, t |-> SubSeq(s, a, b)]

s_slash_m2 == <<"/","m","sup2">>

\* TOKEN_RE.finditer over a text without whitespace, from position p; a
\* character no alternative matches is skipped by the scan
RECURSIVE TokensFrom(_, _)
TokensFrom(s, p) ==
    IF p > Len(s) THEN <<>>
    ELSE IF AbbrAt(s, p)
    THEN <<Tok(TRUE, s, p, AbbrEnd(s, p))>> \o TokensFrom(s, AbbrEnd(s, p) + 1)
    ELSE IF IsWordCh(s[p])
    THEN LET e == RunEnd(s, p, IsWordCh)
             t == RunEnd(s, e + 1, IsTailCh)
         IN  <<Tok(TRUE, s, p, e)>>
             \o (IF t > e THEN <<Tok(FALSE, s, e + 1, t)>> ELSE <<>>)
             \o TokensFrom(s, t + 1)
    ELSE IF p + 2 <= Len(s) /\ SubSeq(s, p, p + 2) = s_slash_m2
    THEN <<Tok(FALSE, s, p, p + 2)>> \o TokensFrom(s, p + 3)
    ELSE IF IsOtherCh(s[p])
    THEN <<Tok(FALSE, s, p, RunEnd(s, p, IsOtherCh))>>
         \o TokensFrom(s, RunEnd(s, p, IsOtherCh) + 1)
    ELSE TokensFrom(s, p + 1)

\* TOKEN_RE.finditer(text): no alternative matches across whitespace and a
\* whitespace run is one token, so the scan restarts at every run boundary
tokenize_with_punct(text) ==
    LET n      == Len(text)
        starts == SelectSeq([i \in 1..n |-> i],
                      LAMBDA i : i = 1 \/ IsSpace(text[i]) # IsSpace(text[i - 1]))
        End(m) == IF m < Len(starts) THEN starts[m + 1] - 1 ELSE n
        Piece(m) == SubSeq(text, starts[m], End(m))
    IN  Concat([m \in 1..Len(starts) |->
                   IF IsSpace(text[starts[m]])
                   THEN <<[w |-> FALSE, t |-> Piece(m)]>>
                   ELSE TokensFrom(Piece(m), 1)] \o <<>>)

-----------------------------------------------------------------------------
(* script.py : engineering helpers                                         *)

IsX(c) == c \in {"x", "X"}

\* \d+(?:\.\d+)?(?:x\d+(?:\.\d+)?)* with re.I, on the whole of s
IsDimensions(s) ==
    LET n == Len(s)
    IN  /\ n >= 1
        /\ IsDigit(s[1]) /\ IsDigit(s[n])
        /\ \A k \in 1..n : IsDigit(s[k]) \/ s[k] = "." \/ IsX(s[k])
        /\ \A k \in 1..n : ~IsDigit(s[k]) => IsDigit(At(s, k - 1)) /\ IsDigit(At(s, k + 1))
        /\ \A j, k \in 1..n :
               (j < k /\ s[j] = "." /\ s[k] = ".") => \E h \in j..k : IsX(s[h])

\* \d*(?:\.\d+)* on the whole of s
IsDigitsDots(s) ==
    \A k \in 1..Len(s) : \/ IsDigit(s[k])
                         \/ s[k] = "." /\ IsDigit(At(s, k + 1))

\* (?:x\d+(?:\.\d+)?)*\d*(?:\.\d+)* with re.I, on the whole of s
IsProfileSuffix(s) ==
    \E m \in 0..Len(s) :
        /\ m = 0 \/ (IsX(s[1]) /\ IsDimensions(SubSeq(s, 2, m)))
        /\ IsDigitsDots(SubSeq(s, m + 1, Len(s)))

ProfileCodes ==
    {<<"c","h","s">>, <<"s","h","s">>, <<"r","h","s">>, <<"e","a">>,
     <<"p","f","c">>, <<"u","b","p">>, <<"u","b">>, <<"u","c">>, <<"u","a">>,
     <<"v","b">>, <<"w","p">>, <<"x">>, <<"d">>}

\* PROFILE_RE.match: prefix + code + suffix, or code + number
ProfileMatches(t) ==
    LET n == Len(t)
    IN  \/ \E a \in 1..n : \E b \in (a + 1)..n :
               /\ LowerStr(SubSeq(t, a + 1, b)) \in ProfileCodes
               /\ IsDimensions(SubSeq(t, 1, a))
               /\ IsProfileSuffix(SubSeq(t, b + 1, n))
        \/ \E b \in 1..n :
               /\ LowerStr(SubSeq(t, 1, b)) \in ProfileCodes
               /\ IsDimensions(SubSeq(t, b + 1, n))

\* normalise_profile without its final .replace('X', 'x')
normalise_profileKeepX(token) ==
    LET t == SelectSeq(token, LAMBDA c : c # " ")
    IN  IF ProfileMatches(t)
        THEN [k \in 1..Len(t) |->
                 IF LowerStr(SubSeq(t, k, k)) \in ProfileCodes \/ ~IsX(t[k])
                 THEN Upper(t[k]) ELSE t[k]] \o <<>>
        ELSE <<>>

\* normalise_profile: None (here the empty text, as falsy as None), or
\* (pre + lit.upper() + suf).replace('X', 'x'): the digits and dots as they
\* are, every x lower case, the code upper case
normalise_profile(token) ==
    LET t == SelectSeq(token, LAMBDA c : c # " ")
    IN  IF ProfileMatches(t)
        THEN [k \in 1..Len(t) |-> IF IsX(t[k]) THEN "x" ELSE Upper(t[k])] \o <<>>
        ELSE <<>>

\* (\d)(m)([23])\b with re.I: the position of the m of a match
SubscriptAt(text, k) ==
    /\ Lower(At(text, k)) = "m"
    /\ IsDigit(At(text, k - 1))
    /\ At(text, k + 1) \in {"2", "3"}
    /\ ~IsWord(At(text, k + 2))

Superscript(c) == IF c = "2" THEN "sup2" ELSE "sup3"

s_mm2 == <<"m","m","2">>
s_mm3 == <<"m","m","3">>
s_m2  == <<"m","2">>
s_m3  == <<"m","3">>

\* the (?i)\b<k>\b -> v table of convert_subscripts; its entries match
\* apart from each other, so the order of the dict does not show
SubscriptWords ==
    <<LitRule(s_mm2, <<"m","m","sup2">>, TRUE, TRUE),
      LitRule(s_mm3, <<"m","m","sup3">>, TRUE, TRUE),
      LitRule(s_m2, <<"m","sup2">>, TRUE, TRUE),
      LitRule(s_m3, <<"m","sup3">>, TRUE, TRUE)>>

convert_subscripts(text) ==
    LET t1 == [k \in 1..Len(text) |->
                  IF SubscriptAt(text, k) THEN "m"
                  ELSE IF SubscriptAt(text, k - 1) THEN Superscript(text[k])
                  ELSE text[k]] \o <<>>
    IN  ApplyRules(t1, SubscriptWords, 1, Len(SubscriptWords))

-----------------------------------------------------------------------------
(* script.py : ExceptionApplier                                            *)

\* data.get(key, default) on the dict load_all returns: its only keys are
\* 'merged' and 'project'
DataGet(data, key, default) ==
    IF key = "merged" THEN data.merged
    ELSE IF key = "project" THEN data.project
    ELSE default

\* self.literals: iterating data.values() yields the keys of the merged
\* OrderedDict and the items of the project list; those without a space stay
ApplierLiterals(data) ==
    SelectSeq([i \in 1..Len(data.merged) |-> data.merged[i].cat] \o data.project,
              LAMBDA ph : ~Contains(ph, " "))

unit_map == <<
    [low |-> <<"n">>,                          canon |-> <<"N">>],
    [low |-> <<"k","n">>,                      canon |-> <<"k","N">>],
    [low |-> <<"n","/","m">>,                  canon |-> <<"N","/","m">>],
    [low |-> <<"k","n","/","m">>,              canon |-> <<"k","N","/","m">>],
    [low |-> <<"n","/","m","sup2">>,           canon |-> <<"N","/","m","sup2">>],
    [low |-> <<"n","/","m","m","sup2">>,       canon |-> <<"N","/","m","m","sup2">>],
    [low |-> <<"k","n","/","m","sup2">>,       canon |-> <<"k","N","/","m","sup2">>],
    [low |-> <<"k","n","/","m","m","sup2">>,   canon |-> <<"k","N","/","m","m","sup2">>],
    [low |-> <<"k","n","m">>,                  canon |-> <<"k","N","m">>],
    [low |-> <<"m">>,                          canon |-> <<"m">>],
    [low |-> <<"m","sup2">>,                   canon |-> <<"m","sup2">>],
    [low |-> <<"m","sup3">>,                   canon |-> <<"m","sup3">>],
    [low |-> <<"m","m">>,                      canon |-> <<"m","m">>],
    [low |-> <<"m","m","sup2">>,               canon |-> <<"m","m","sup2">>],
    [low |-> <<"m","m","sup3">>,               canon |-> <<"m","m","sup3">>],
    [low |-> <<"h","z">>,                      canon |-> <<"H","z">>],
    [low |-> <<"m","p","a">>,                  canon |-> <<"M","P","a">>] >>

p_architect     == <<"a","r","c","h","i","t","e","c","t">>
p_contractor    == <<"c","o","n","t","r","a","c","t","o","r">>
p_engineer      == <<"e","n","g","i","n","e","e","r">>
p_manufacturer  == <<"m","a","n","u","f","a","c","t","u","r","e","r">>
p_subcontractor == <<"s","u","b","-">> \o p_contractor

PossessiveOwners ==
    <<p_architect, p_contractor, p_engineer, p_manufacturer, p_subcontractor>>

\* the canonical possessive: first letter upper case, curly apostrophe
PossessiveCanon(owner) == <<Upper(owner[1])>> \o Tail(owner) \o <<"rsquo", "s">>

\* self.apostrophe_map: the five straight-apostrophe keys, then update() with
\* the five curly-apostrophe keys
apostrophe_map ==
    [i \in 1..5 |-> [low   |-> PossessiveOwners[i] \o <<"'", "s">>,
                     canon |-> PossessiveCanon(PossessiveOwners[i])]]
    \o [i \in 1..5 |-> [low   |-> PossessiveOwners[i] \o <<"rsquo", "s">>,
                        canon |-> PossessiveCanon(PossessiveOwners[i])]]

\* self.sec_codes = {c.lower(): c for c in codes}
SecCodes(data) ==
    LET codes == DataGet(data, "Section Profiles & Steel Sections", <<>>)
    IN  [i \in 1..Len(codes) |-> [low |-> LowerStr(codes[i]), canon |-> codes[i]]] \o <<>>

\* the applier built by ExceptionApplier.__init__ from the loaded catalogue
ExceptionApplier(data) ==
    [literals |-> ApplierLiterals(data), sec_codes |-> SecCodes(data)]

\* \d+(?:\.\d+)? on the whole of s
IsNumber(s) ==
    /\ Len(s) >= 1
    /\ IsDigit(s[1]) /\ IsDigit(s[Len(s)])
    /\ \A k \in 1..Len(s) : IsDigit(s[k]) \/ s[k] = "."
    /\ \A j, k \in 1..Len(s) : (s[j] = "." /\ s[k] = ".") => j = k

\* numeric_re.match(tok): the length of the number group, -1 without a match
NumericSplit(tok) ==
    LET cand == {a \in 0..Len(tok) :
                    /\ a = 0 \/ IsNumber(SubSeq(tok, 1, a))
                    /\ HasKey(unit_map, LowerStr(SubSeq(tok, a + 1, Len(tok))))}
    IN  IF cand = {} THEN -1 ELSE CHOOSE a \in cand : TRUE

\* ^\d+no\.?$ on tok_low: the length of the digit run, -1 without a match
QuantitySplit(tok_low) ==
    LET d    == RunEnd(tok_low, 1, IsDigit)
        rest == SubSeq(tok_low, d + 1, Len(tok_low))
    IN  IF d >= 1 /\ rest \in {<<"n","o">>, <<"n","o",".">>} THEN d ELSE -1

StartsWith(s, pre) == Len(pre) <= Len(s) /\ SubSeq(s, 1, Len(pre)) = pre
EndsWith(s, suf) ==
    Len(suf) <= Len(s) /\ SubSeq(s, Len(s) - Len(suf) + 1, Len(s)) = suf

\* next(l for l in self.literals if l.lower() == tok_low): self.literals is a
\* set, so which of several spellings comes first is not fixed
LiteralFor(applier, tok_low, ord) ==
    LET lits == DictItems(applier.literals, ord)
    IN  lits[CHOOSE i \in 1..Len(lits) :
                 /\ LowerStr(lits[i]) = tok_low
                 /\ \A j \in 1..(i - 1) : LowerStr(lits[j]) # tok_low]

\* the section code loop of _enforce_core: the first code, in the order of
\* self.sec_codes.items(), that the token starts or ends with
SecCodeFor(applier, tok, ord) ==
    LET codes == DictItems(applier.sec_codes, ord)
        Hit(i) == StartsWith(LowerStr(tok), codes[i].low)
                  \/ EndsWith(LowerStr(tok), codes[i].low)
        hits  == {i \in 1..Len(codes) : Hit(i)}
        i     == CHOOSE h \in hits : \A g \in hits : h <= g
    IN  IF hits = {} THEN tok
        ELSE IF StartsWith(LowerStr(tok), codes[i].low)
        THEN codes[i].canon \o SubSeq(tok, Len(codes[i].low) + 1, Len(tok))
        ELSE IF codes[i].low = <<>> THEN codes[i].canon     \* tok[:-0] is ''
        ELSE SubSeq(tok, 1, Len(tok) - Len(codes[i].low)) \o codes[i].canon

_enforce_core(applier, tok, ord) ==
    LET tok_low == LowerStr(tok)
        a == NumericSplit(tok)
        d == QuantitySplit(tok_low)
    IN  IF a >= 0
        THEN SubSeq(tok, 1, a) \o Lookup(unit_map, LowerStr(SubSeq(tok, a + 1, Len(tok))))
        ELSE IF d >= 0
        THEN SubSeq(tok, 1, d) \o <<"N","o">>
             \o (IF EndsWith(tok_low, <<"n","o",".">>) THEN <<".">> ELSE <<>>)
        ELSE IF HasKey(apostrophe_map, tok_low)
        THEN Lookup(apostrophe_map, tok_low)
        ELSE IF \E i \in 1..Len(applier.literals) : LowerStr(applier.literals[i]) = tok_low
        THEN LiteralFor(applier, tok_low, ord)
        ELSE SecCodeFor(applier, tok, ord)

IsOpenCh(c)  == c \in {"(", "["}
IsCloseCh(c) == c \in {")", "]"}
IsPunctCh(c) == c \in {".", ",", ";", ":", "?", "!"}
IsCoreCh(c)  == c # "" /\ ~IsCloseCh(c) /\ ~IsPunctCh(c)

\* ExceptionApplier.enforce(token); the token holds no whitespace
enforce(applier, token, ord) ==
    LET token_conv == convert_subscripts(token)
        prof  == normalise_profile(token_conv)
        n     == Len(token_conv)
        o     == IF IsOpenCh(At(token_conv, 1)) THEN 1 ELSE 0
        c     == RunEnd(token_conv, o + 1, IsCoreCh)
        cl    == IF IsCloseCh(At(token_conv, c + 1)) THEN c + 1 ELSE c
        p     == RunEnd(token_conv, cl + 1, IsPunctCh)
    IN  IF prof # <<>> THEN prof
        ELSE IF p # n THEN _enforce_core(applier, token_conv, ord)
        ELSE SubSeq(token_conv, 1, o)
             \o _enforce_core(applier, SubSeq(token_conv, o + 1, c), ord)
             \o SubSeq(token_conv, c + 1, n)

\* apply_apostrophe_exceptions: \b<raw>\b -> canon for every entry
apply_apostrophe_exceptions(text, ord) ==
    LET items == DictItems(apostrophe_map, ord)
    IN  ApplyRules(text,
                   [i \in 1..Len(items) |->
                       LitRule(items[i].low, items[i].canon, TRUE, TRUE)] \o <<>>,
                   1, Len(items))

-----------------------------------------------------------------------------
(* script.py : note-level processing                                       *)

\* one line of convert_text_note_text
ConvertLine(line, stems, regex_map, applier, ord) ==
    IF is_bulleted_or_numbered_line(line) THEN line
    ELSE LET sent      == restore_literals(apply_strict_sentence_case(line, stems),
                                           regex_map)
             sent_toks == tokenize_with_punct(sent)
         IN  IF sent = <<>> THEN <<>>
             ELSE
             Concat([i \in 1..Len(sent_toks) |->
                        IF sent_toks[i].w THEN enforce(applier, sent_toks[i].t, ord)
                        ELSE sent_toks[i].t] \o <<>>)

\* convert_text_note_text(text, applier): the new text
convert_text_note_text(text, data, ord) ==
    LET stems     == DottedLiterals(data)
        regex_map == get_single_regexps(data, ord)
        applier   == ExceptionApplier(data)
        lines     == splitlines(protect_abbrev(text))
    IN  restore_abbrev(Concat([m \in 1..Len(lines) |->
            ConvertLine(lines[m], stems, regex_map, applier, ord)] \o <<>>))

\* what update_text_notes_to_sentence_case writes back for one note
enforce_text(text, data, ord) ==
    apply_apostrophe_exceptions(convert_text_note_text(text, data, ord), ord)

-----------------------------------------------------------------------------
(* The catalogue loader as a state machine                                 *)

MaxProject == 2            \* longest project list of the model

w_Foo      == <<"F","o","o">>
w_FOO      == <<"F","O","O">>
w_foo      == <<"f","o","o">>
w_ms       == <<"m","s">>
w_As_built == <<"A","s"," ","b","u","i","l","t">>
c_New             == <<"N","e","w">>
c_Bolt_Sizes      == <<"B","o","l","t"," ","S","i","z","e","s">>
c_Possessive_Terms == <<"P","o","s","s","e","s","s","i","v","e"," ","T","e","r","m","s">>

SeqsUpTo(S, n) == UNION {[1..k -> S] : k \in 0..n}

ProjectWords == {JStr(w_Foo), JStr(w_FOO), JStr(w_ms), JStr(w_As_built)}

\* well-formed project files: a flat list of strings
ProjectLists == {JArr(l) : l \in SeqsUpTo(ProjectWords, MaxProject)}

\* project files of the wrong shape
ProjectMalformed ==
    {NoFile, BadFile, JObj(<<>>), JArr(<<JNum>>), JArr(<<JStr(w_Foo), JNum>>)}

SysFooInBolts == JObj(<<[k |-> c_Bolt_Sizes,
                         val |-> JArr(<<JStr(w_foo), JStr(w_ms), JStr(w_FOO)>>)]>>)
SysNewCategory == JObj(<<[k |-> c_New, val |-> JArr(<<JStr(w_FOO), JStr(w_foo)>>)],
                         [k |-> c_Possessive_Terms, val |-> JObj(<<>>)]>>)

\* system files: well-formed ones and ones of the wrong shape
SystemWellFormed == {JObj(<<>>), SysFooInBolts, SysNewCategory}
SystemMalformed ==
    {NoFile, BadFile, JArr(<<>>), JStr(w_foo),
     JObj(<<[k |-> c_New, val |-> JStr(w_foo)]>>),
     JObj(<<[k |-> c_New, val |-> JArr(<<JStr(w_foo), JNum>>)]>>)}

DictOrders == {"insertion", "reversed"}

\* no document, no line and no token in hand
NoTxn == [state |-> "none", raised |-> 0]
NotesIdle ==
    /\ notes = <<>> /\ old_texts = <<>> /\ runs = 0 /\ updated = 0 /\ skipped = 0
    /\ txn = NoTxn
    /\ assigned = {}
NoText == [done |-> FALSE, text |-> <<>>]
SegIdle ==
    /\ seg_line = <<>> /\ sentences = <<>>
    /\ protected = NoText /\ restored = NoText
TokIdle == word_token = <<>> /\ enforced = [done |-> FALSE, text |-> <<>>]

\* no maintenance operation so far
NoOp == [kind |-> "none", old |-> <<>>, new |-> <<>>, outcome |-> "none"]
MaintIdle == flat_list = <<>> /\ op = NoOp

\* no line handed to the loop body of convert_text_note_text yet
NoLine == [done |-> FALSE, listed |-> FALSE, sent |-> <<>>, orig_toks |-> <<>>,
           sent_toks |-> <<>>, changes |-> <<>>, rebuilt |-> <<>>]
LineIdle ==
    /\ conv_line = <<>>
    /\ cased = NoText
    /\ conv = NoLine

\* no Configure Exceptions session works on the project file
NoSessions == sessions = <<>>

\* logging.getLogger(name) of a fresh interpreter, no log file of the month
NewLogger == [handlers |-> 0, filters |-> 0, initialized |-> FALSE]
NoLogFile == [exists |-> FALSE, header |-> FALSE, records |-> 0]
LogIdle ==
    /\ logger = NewLogger
    /\ em_module = "absent"
    /\ log_file = NoLogFile
    /\ copies = 0

InitLoad ==
    /\ NotesIdle /\ SegIdle /\ TokIdle /\ MaintIdle /\ LogIdle /\ LineIdle /\ NoSessions
    /\ system_file \in SystemWellFormed \cup SystemMalformed
    /\ project_file \in ProjectLists \cup ProjectMalformed
    /\ dict_order \in DictOrders
    /\ cache = None
    /\ load_result = "none"

\* ExceptionManager.load_all(): the cached catalogue, or a fresh merge
LoadAll ==
    IF cache.loaded
    THEN /\ load_result' = "ok"
         /\ UNCHANGED <<system_file, project_file, cache, dict_order>>
         /\ UNCHANGED <<note_vars, seg_vars, tok_vars, maint_vars, log_vars, line_vars, sess_vars>>
    ELSE LET r == load_all(system_file, project_file, dict_order)
         IN  /\ load_result' = IF r.raised THEN "raised" ELSE "ok"
             /\ cache' = r.cache
             /\ project_file' = r.projfile
             /\ UNCHANGED <<system_file, dict_order>>
             /\ UNCHANGED <<note_vars, seg_vars, tok_vars, maint_vars, log_vars, line_vars, sess_vars>>

\* ExceptionManager.clear_cache()
ClearCache ==
    /\ cache.loaded
    /\ cache' = None
    /\ load_result' = "none"
    /\ UNCHANGED <<system_file, project_file, dict_order>>
    /\ UNCHANGED <<note_vars, seg_vars, tok_vars, maint_vars, log_vars, line_vars, sess_vars>>

NextLoad == LoadAll \/ ClearCache

SpecLoad == InitLoad /\ [][NextLoad]_vars

-----------------------------------------------------------------------------
(* The converter as a state machine: one run of the script over the notes  *)

MaxRuns == 2               \* runs of the converter over one document

w_bs_        == <<"b","s","_">>
w_m2ub2      == <<"m","2","&","u","b","2">>
w_MS         == <<"M","S">>
w_architects == <<"a","r","c","h","i","t","e","c","t","'","s">>
w_4          == <<"4">>
w_a4         == <<"a","4">>
w_no         == <<"n","o">>
w_NO_dot     == <<"N","O",".">>
w_4no_dot    == <<"4","n","o",".">>
m_numbered   == <<"1","."," ">>
m_dash       == <<"-"," ">>

NoteWords ==
    {w_bs_, w_m2ub2, w_ms, w_MS, w_architects, w_4, w_a4, w_no, w_NO_dot, w_4no_dot}
NoteSeparators == {<<" ">>, <<"nl">>}

\* note texts: one or two words, with or without a list marker in front
NoteTexts ==
    {m \o w : m \in {<<>>, m_numbered, m_dash}, w \in NoteWords}
    \cup {m \o w1 \o sep \o w2 : m \in {<<>>, m_numbered},
                                 w1 \in NoteWords, sep \in NoteSeparators,
                                 w2 \in NoteWords}

Note(text, grouped) == [text |-> text, grouped |-> grouped]

\* a run that takes no note for grouped
IsGroupedNever(note) == FALSE

\* note.GroupId != ElementId.InvalidElementId
IsGrouped(note) == note.grouped

\* documents: one free note, or a grouped note with or without a free one
Documents ==
    {<<Note(t, FALSE)>> : t \in NoteTexts}
    \cup {<<Note(w_ms, TRUE)>>, <<Note(w_ms, TRUE), Note(w_4 \o <<" ">> \o w_no, FALSE)>>}

InitNotes ==
    /\ system_file \in {NoFile, JArr(<<>>)}
    /\ project_file = JArr(<<JStr(w_Foo)>>)
    /\ dict_order \in DictOrders
    /\ cache = None
    /\ load_result = "none"
    /\ notes \in Documents
    /\ old_texts = [i \in 1..Len(notes) |-> notes[i].text]
    /\ runs = 0 /\ updated = 0 /\ skipped = 0 /\ txn = NoTxn /\ assigned = {}
    /\ SegIdle /\ TokIdle /\ MaintIdle /\ LogIdle /\ LineIdle /\ NoSessions

\* update_text_notes_to_sentence_case(doc), in a script whose import loaded
\* the catalogue: every free note gets enforce_text of its text
UpdateNotes ==
    /\ cache.loaded
    /\ runs < MaxRuns
    /\ notes' = [i \in 1..Len(notes) |->
                    IF IsGrouped(notes[i]) THEN notes[i]
                    ELSE Note(enforce_text(notes[i].text, cache, dict_order),
                              notes[i].grouped)] \o <<>>
    /\ old_texts' = [i \in 1..Len(notes) |-> notes[i].text] \o <<>>
    /\ assigned' = {i \in 1..Len(notes) : notes'[i].text # notes[i].text}
    /\ updated' = Cardinality(assigned')
    /\ skipped' = Cardinality({i \in 1..Len(notes) : IsGrouped(notes[i])})
    /\ runs' = runs + 1
    /\ txn' = [state |-> "committed", raised |-> 0]
    /\ UNCHANGED <<load_vars, seg_vars, tok_vars, maint_vars, log_vars, line_vars, sess_vars>>

NextNotes == LoadAll \/ UpdateNotes

SpecNotes == InitNotes /\ [][NextNotes]_vars

-----------------------------------------------------------------------------
(* The sentence segmenter applied to one line                              *)

t_confirm == <<"C","o","n","f","i","r","m"," ","s","p","a","c","i","n","g"," ">>
t_see     == <<"s","e","e"," ">>
t_check   == <<"C","h","e","c","k"," ","a","g","a","i","n",".">>
t_ok      == <<"o","k">>

SegBefore == {<<>>, t_confirm, t_see}
SegWords  == {RStripDots(s_uno), UpperStr(RStripDots(s_uno)), RStripDots(s_tbc),
              <<"l",".","s">>, <<"c","r","s">>, <<"C","R","S",".">>, s_uno,
              <<"e","n","d">>, <<"x","c","r","s">>}
SegPunct  == {".", "?", "!"}
SegSpaces == {<<>>, <<" ">>, <<" ", " ">>}
SegAfter  == {t_check, t_ok}

\* lines: words, a word that may be a protected stem, a mark, space, words
SegLines ==
    {b \o w \o <<p>> \o sp \o a :
        b \in SegBefore, w \in SegWords, p \in SegPunct, sp \in SegSpaces, a \in SegAfter}

InitSegment ==
    /\ system_file = NoFile
    /\ project_file = NoFile
    /\ dict_order \in DictOrders
    /\ cache = None
    /\ load_result = "none"
    /\ seg_line \in SegLines
    /\ sentences = <<>>
    /\ protected = NoText /\ restored = NoText
    /\ NotesIdle /\ TokIdle /\ MaintIdle /\ LogIdle /\ LineIdle /\ NoSessions

\* split_into_sentences on a line of the protected text, as in
\* convert_text_note_text and apply_strict_sentence_case
Segment ==
    /\ cache.loaded
    /\ sentences = <<>>
    /\ sentences' = split_into_sentences(protect_abbrev(seg_line), DottedLiterals(cache))
    /\ UNCHANGED <<load_vars, note_vars, seg_line, protected, restored, tok_vars, maint_vars, log_vars, line_vars, sess_vars>>

NextSegment == LoadAll \/ Segment

SpecSegment == InitSegment /\ [][NextSegment]_vars

-----------------------------------------------------------------------------
(* ExceptionApplier.enforce applied to one word token                      *)

n_5   == <<"5">>
n_20  == <<"2","0">>
n_1_5 == <<"1",".","5">>

UnitNumbers == {<<>>, n_5, n_20, n_1_5}

\* the ASCII spelling of a unit: 2 for the superscript two, 3 for three
AsciiExponent(unit) ==
    [k \in 1..Len(unit) |-> IF unit[k] = "sup2" THEN "2"
                            ELSE IF unit[k] = "sup3" THEN "3" ELSE unit[k]] \o <<>>

\* unit spellings: the keys of unit_map and their ASCII spellings, in lower
\* case, upper case and canonical case
UnitSpellings ==
    UNION {{u, UpperStr(u), LowerStr(u)} :
              u \in UNION {{unit_map[i].canon, AsciiExponent(unit_map[i].canon)} :
                              i \in 1..Len(unit_map)}}

UnitTokens == {n \o u : n \in UnitNumbers, u \in UnitSpellings}

InitEnforce ==
    /\ system_file = NoFile
    /\ project_file = NoFile
    /\ dict_order \in DictOrders
    /\ cache = None
    /\ load_result = "none"
    /\ word_token \in UnitTokens
    /\ enforced = [done |-> FALSE, text |-> <<>>]
    /\ NotesIdle /\ SegIdle /\ MaintIdle /\ LogIdle /\ LineIdle /\ NoSessions

\* applier.enforce(tok) for a word token, as in convert_text_note_text
Enforce ==
    /\ cache.loaded
    /\ ~enforced.done
    /\ enforced' = [done |-> TRUE,
                    text |-> enforce(ExceptionApplier(cache), word_token, dict_order)]
    /\ UNCHANGED <<load_vars, note_vars, seg_vars, word_token, maint_vars, log_vars, line_vars, sess_vars>>

NextEnforce == LoadAll \/ Enforce

SpecEnforce == InitEnforce /\ [][NextEnforce]_vars

-----------------------------------------------------------------------------
(* ExceptionApplier.enforce applied to one steel-profile token             *)

n_100 == <<"1","0","0">>
n_6   == <<"6">>

ProfileNumbers == {n_100, n_6, n_1_5}
ProfileSeparators == {<<"x">>, <<"X">>}

\* <number>[x<number>]* : one, two or three numbers
ProfileDims ==
    ProfileNumbers
    \cup {a \o s \o b : a \in ProfileNumbers, s \in ProfileSeparators, b \in ProfileNumbers}
    \cup {n_100 \o s \o n_100 \o t \o n_6 : s \in ProfileSeparators, t \in ProfileSeparators}

\* the profile codes in lower case, in upper case and capitalised
CodeSpellings ==
    UNION {{c, UpperStr(c), <<Upper(c[1])>> \o Tail(c)} : c \in ProfileCodes}

ProfileTrailing == {<<>>, n_6}

ProfileTokens ==
    {p \o c \o t : p \in ProfileDims, c \in CodeSpellings, t \in ProfileTrailing}

InitProfile ==
    /\ system_file = NoFile
    /\ project_file = NoFile
    /\ dict_order \in DictOrders
    /\ cache = None
    /\ load_result = "none"
    /\ word_token \in ProfileTokens
    /\ enforced = [done |-> FALSE, text |-> <<>>]
    /\ NotesIdle /\ SegIdle /\ MaintIdle /\ LogIdle /\ LineIdle /\ NoSessions

NextProfile == LoadAll \/ Enforce

SpecProfile == InitProfile /\ [][NextProfile]_vars

-----------------------------------------------------------------------------
(* The converter run over notes that hold a possessive form                *)

t_drawings == <<" ","d","r","a","w","i","n","g","s">>

Apostrophes == {"'", "rsquo"}

\* the possessive of an owner, spelled with apostrophe a
Possessive(owner, a) == owner \o <<a, "s">>

\* the five forms with either apostrophe, in lower case, in upper case and
\* capitalised
PossessiveForms ==
    UNION {{f, UpperStr(f), <<Upper(f[1])>> \o Tail(f)} :
              f \in {Possessive(PossessiveOwners[k], a) : k \in 1..5, a \in Apostrophes}}

PossessiveTexts ==
    {b \o f \o a : b \in {<<>>, t_see, m_numbered},
                   f \in PossessiveForms,
                   a \in {<<>>, t_drawings, <<".">>}}

InitPossessive ==
    /\ system_file = NoFile
    /\ project_file = NoFile
    /\ dict_order \in DictOrders
    /\ cache = None
    /\ load_result = "none"
    /\ \E t \in PossessiveTexts : notes = <<Note(t, FALSE)>>
    /\ old_texts = [i \in 1..Len(notes) |-> notes[i].text]
    /\ runs = 0 /\ updated = 0 /\ skipped = 0 /\ txn = NoTxn /\ assigned = {}
    /\ SegIdle /\ TokIdle /\ MaintIdle /\ LogIdle /\ LineIdle /\ NoSessions

SpecPossessive == InitPossessive /\ [][NextNotes]_vars

-----------------------------------------------------------------------------
(* The converter run over notes that hold a multi-word literal             *)

w_As_Built        == <<"A","s"," ","B","u","i","l","t">>
w_AS_BUILT        == <<"A","S"," ","B","U","I","L","T">>
w_BUILT           == <<"B","U","I","L","T">>
w_As_Built_Survey == w_As_Built \o <<" ","S","u","r","v","e","y">>

\* catalogues: the default phrase 'As Built' with the word BUILT in the
\* project or in the system tier, and two project phrases of which one
\* holds the other
PhraseCatalogues ==
    {[sys |-> NoFile, proj |-> JArr(<<JStr(w_BUILT)>>)],
     [sys |-> JObj(<<[k |-> c_New, val |-> JArr(<<JStr(w_BUILT)>>)]>>), proj |-> NoFile],
     [sys |-> NoFile, proj |-> JArr(<<JStr(w_As_Built_Survey), JStr(w_AS_BUILT)>>)],
     [sys |-> NoFile, proj |-> JArr(<<JStr(w_AS_BUILT), JStr(w_As_Built_Survey)>>)]}

PhraseTexts ==
    {b \o ph \o a :
        b \in {<<>>, t_see},
        ph \in UNION {{m, LowerStr(m), UpperStr(m)} : m \in {w_As_Built, w_As_Built_Survey}},
        a \in {<<>>, t_drawings, <<".">>}}

InitPhrases ==
    /\ \E c \in PhraseCatalogues : system_file = c.sys /\ project_file = c.proj
    /\ dict_order \in DictOrders
    /\ cache = None
    /\ load_result = "none"
    /\ \E t \in PhraseTexts : notes = <<Note(t, FALSE)>>
    /\ old_texts = [i \in 1..Len(notes) |-> notes[i].text]
    /\ runs = 0 /\ updated = 0 /\ skipped = 0 /\ txn = NoTxn /\ assigned = {}
    /\ SegIdle /\ TokIdle /\ MaintIdle /\ LogIdle /\ LineIdle /\ NoSessions

SpecPhrases == InitPhrases /\ [][NextNotes]_vars

-----------------------------------------------------------------------------
(* Configure Exceptions script.py : manage_exceptions                      *)

MaxList == 3

w_Bar == <<"B","a","r">>

\* the script's _load_json: the list in the file, [] on any failure
script_load_json(file) == IF file.t = "arr" THEN file.v ELSE <<>>

\* _save_json: the file replaced by the dumped list, or left as it is when
\* the write raised (the error is shown and swallowed)
_save_json(file, flat, written) ==
    IF written THEN JArr(flat) ELSE file

\* a check that finds no entry
AnyLowerNoHit(fl, hits) == "false"

\* any(... e.lower() ... for e in flat_list), hits the entries for which the
\* condition is true: TRUE at the first hit, AttributeError at an entry
\* without lower() that comes before it
AnyLower(fl, hits) ==
    LET bad == {i \in 1..Len(fl) : fl[i].t # "str"}
        first(S) == CHOOSE i \in S : \A j \in S : i <= j
    IN  IF hits # {} /\ (bad = {} \/ first(hits) < first(bad)) THEN "true"
        ELSE IF bad # {} THEN "raised"
        ELSE "false"

\* flat_list.index(x): the first entry equal to x
IndexOf(fl, x) == CHOOSE i \in 1..Len(fl) : fl[i] = x /\ \A j \in 1..(i - 1) : fl[j] # x

\* flat_list.remove(x) removing every entry equal to x
RemoveAll(fl, x) == SelectSeq(fl, LAMBDA e : e # x)

\* flat_list.remove(x): the list without the first entry equal to x
Remove(fl, x) ==
    LET i == IndexOf(fl, x)
    IN  SubSeq(fl, 1, i - 1) \o SubSeq(fl, i + 1, Len(fl))

\* the cache left in place after a save
KeepCache(c) == c

\* ExceptionManager.clear_cache() after a save
ClearedCache(c) == None

ManagerOpen == op.kind # "none" /\ op.outcome # "fatal"

Done(kind, old, new, outcome) ==
    [kind |-> kind, old |-> old, new |-> new, outcome |-> outcome]

\* an operation that ends in 'continue' or in the fatal handler: nothing is
\* written and the cache is left alone
NothingSaved == UNCHANGED <<project_file, cache, load_result>>

\* flat_list saved, then clear_cache()
Saved(flat, written) ==
    /\ project_file' = _save_json(project_file, flat, written)
    /\ cache' = ClearedCache(cache)
    /\ load_result' = IF ClearedCache(cache).loaded THEN load_result ELSE "none"

SaveOutcome(written) == IF written THEN "saved" ELSE "save_failed"

\* the script starts: PROJECT_JSON = _get_project_path() creates a missing
\* file, manage_exceptions() clears the cache
OpenManager ==
    /\ ~ManagerOpen
    /\ project_file' = get_project_path_effect(project_file)
    /\ cache' = None
    /\ load_result' = "none"
    /\ flat_list' = <<>>
    /\ op' = Done("open", <<>>, <<>>, "none")
    /\ UNCHANGED <<system_file, dict_order, note_vars, seg_vars, tok_vars, log_vars, line_vars, sess_vars>>

\* 'Exit' chosen, or the dialog cancelled
ExitManager ==
    /\ ManagerOpen
    /\ flat_list' = <<>>
    /\ op' = NoOp
    /\ UNCHANGED <<load_vars, note_vars, seg_vars, tok_vars, log_vars, line_vars, sess_vars>>

\* 'Add Exception' with the text new_exc entered
Add(new_exc, written) ==
    LET fl  == script_load_json(project_file)
        dup == AnyLower(fl, {i \in 1..Len(fl) :
                                fl[i].t = "str" /\ LowerStr(fl[i].v) = LowerStr(new_exc)})
    IN  /\ ManagerOpen
        /\ Len(fl) < MaxList
        /\ flat_list' = fl
        /\ IF new_exc = <<>>
           THEN op' = Done("add", <<>>, new_exc, "cancelled") /\ NothingSaved
           ELSE IF dup = "true"
           THEN op' = Done("add", <<>>, new_exc, "rejected") /\ NothingSaved
           ELSE IF dup = "raised"
           THEN op' = Done("add", <<>>, new_exc, "fatal") /\ NothingSaved
           ELSE /\ Saved(Append(fl, JStr(new_exc)), written)
                /\ op' = Done("add", <<>>, new_exc, SaveOutcome(written))
        /\ UNCHANGED <<system_file, dict_order, note_vars, seg_vars, tok_vars, log_vars, line_vars, sess_vars>>

\* 'Edit Exception' with old_val selected and new_val entered
Edit(old_val, new_val, written) ==
    LET fl  == script_load_json(project_file)
        dup == AnyLower(fl, {i \in 1..Len(fl) :
                                /\ fl[i].t = "str"
                                /\ LowerStr(fl[i].v) = LowerStr(new_val)
                                /\ LowerStr(fl[i].v) # LowerStr(old_val)})
    IN  /\ ManagerOpen
        /\ fl # <<>>
        /\ \E i \in 1..Len(fl) : fl[i] = JStr(old_val)
        /\ flat_list' = fl
        /\ IF new_val = <<>>
           THEN op' = Done("edit", old_val, new_val, "cancelled") /\ NothingSaved
           ELSE IF dup = "true"
           THEN op' = Done("edit", old_val, new_val, "rejected") /\ NothingSaved
           ELSE IF dup = "raised"
           THEN op' = Done("edit", old_val, new_val, "fatal") /\ NothingSaved
           ELSE /\ Saved([fl EXCEPT ![IndexOf(fl, JStr(old_val))] = JStr(new_val)], written)
                /\ op' = Done("edit", old_val, new_val, SaveOutcome(written))
        /\ UNCHANGED <<system_file, dict_order, note_vars, seg_vars, tok_vars, log_vars, line_vars, sess_vars>>

\* 'Delete Exception' with to_delete selected and the question answered
Delete(to_delete, confirm, written) ==
    LET fl == script_load_json(project_file)
    IN  /\ ManagerOpen
        /\ fl # <<>>
        /\ \E i \in 1..Len(fl) : fl[i] = JStr(to_delete)
        /\ flat_list' = fl
        /\ IF ~confirm
           THEN op' = Done("delete", to_delete, <<>>, "cancelled") /\ NothingSaved
           ELSE /\ Saved(Remove(fl, JStr(to_delete)), written)
                /\ op' = Done("delete", to_delete, <<>>, SaveOutcome(written))
        /\ UNCHANGED <<system_file, dict_order, note_vars, seg_vars, tok_vars, log_vars, line_vars, sess_vars>>

MaintWords == {w_Foo, w_FOO, w_Bar}

\* project files the script may find
MaintFiles ==
    {NoFile, JObj(<<>>), JArr(<<>>),
     JArr(<<JStr(w_Foo)>>), JArr(<<JStr(w_Foo), JStr(w_Bar)>>),
     JArr(<<JStr(w_Foo), JStr(w_FOO)>>), JArr(<<JStr(w_Foo), JStr(w_Foo)>>),
     JArr(<<JNum, JStr(w_Foo)>>)}

InitMaint ==
    /\ system_file = NoFile
    /\ project_file \in MaintFiles
    /\ dict_order \in DictOrders
    /\ cache = None
    /\ load_result = "none"
    /\ NotesIdle /\ SegIdle /\ TokIdle /\ MaintIdle /\ LogIdle /\ LineIdle /\ NoSessions

NextMaint ==
    \/ LoadAll
    \/ OpenManager
    \/ ExitManager
    \/ \E new_exc \in MaintWords \cup {<<>>} : \E written \in BOOLEAN :
           Add(new_exc, written)
    \/ \E old_val \in MaintWords : \E new_val \in MaintWords \cup {<<>>} :
           \E written \in BOOLEAN : Edit(old_val, new_val, written)
    \/ \E to_delete \in MaintWords : \E confirm \in BOOLEAN : \E written \in BOOLEAN :
           Delete(to_delete, confirm, written)

SpecMaint == InitMaint /\ [][NextMaint]_vars

-----------------------------------------------------------------------------
(* The converter run in which applier.enforce raises                       *)

\* update_text_notes_to_sentence_case(doc) when an exception leaves
\* applier.enforce while free note i is converted: nothing between enforce
\* and the run's 'except Exception' catches it, the transaction is rolled
\* back and the error box is shown instead of the counts
UpdateNotesRaised(i) ==
    /\ cache.loaded
    /\ runs < MaxRuns
    /\ i \in 1..Len(notes) /\ ~IsGrouped(notes[i])
    /\ notes' = notes
    /\ assigned' = {j \in 1..(i - 1) :
                       /\ ~IsGrouped(notes[j])
                       /\ enforce_text(notes[j].text, cache, dict_order) # notes[j].text}
    /\ old_texts' = [j \in 1..Len(notes) |-> notes[j].text] \o <<>>
    /\ runs' = runs + 1
    /\ txn' = [state |-> "rolled_back", raised |-> i]
    /\ UNCHANGED <<updated, skipped, load_vars, seg_vars, tok_vars, maint_vars, log_vars, line_vars, sess_vars>>

\* documents of two free notes
NoteIndexes == {1, 2}

InitFaults ==
    /\ system_file = NoFile
    /\ project_file = JArr(<<JStr(w_Foo)>>)
    /\ dict_order \in DictOrders
    /\ cache = None
    /\ load_result = "none"
    /\ \E a \in NoteWords : \E b \in NoteWords : notes = <<Note(a, FALSE), Note(b, FALSE)>>
    /\ old_texts = [i \in 1..Len(notes) |-> notes[i].text]
    /\ runs = 0 /\ updated = 0 /\ skipped = 0 /\ txn = NoTxn /\ assigned = {}
    /\ SegIdle /\ TokIdle /\ MaintIdle /\ LogIdle /\ LineIdle /\ NoSessions

NextFaults ==
    \/ LoadAll
    \/ UpdateNotes
    \/ \E i \in NoteIndexes : UpdateNotesRaised(i)

SpecFaults == InitFaults /\ [][NextFaults]_vars

-----------------------------------------------------------------------------
(* protect_abbrev and restore_abbrev applied to one text                   *)

t_sdot == <<ABBR_SAFE_DOT>>

\* an abbreviation of NO_SENTENCE_DOT in lower or upper case or without its
\* dots, with text, a word character, a dot or a safe dot around it
ProtectTexts ==
    {b \o ab \o a :
        b \in {<<>>, t_see, t_sdot},
        ab \in {s_uno, UpperStr(s_uno), s_tbc, UpperStr(s_tbc), <<"u","n","o">>},
        a \in {<<>>, <<"x">>, <<" ","o","k">>, <<".">>, <<"x"," ">> \o s_tbc \o <<"s">>, t_sdot}}

InitProtect ==
    /\ system_file = NoFile
    /\ project_file = NoFile
    /\ dict_order \in DictOrders
    /\ cache = None
    /\ load_result = "none"
    /\ seg_line \in ProtectTexts
    /\ sentences = <<>>
    /\ protected = NoText /\ restored = NoText
    /\ NotesIdle /\ TokIdle /\ MaintIdle /\ LogIdle /\ LineIdle /\ NoSessions

\* text = protect_abbrev(text), the first statement of convert_text_note_text
Protect ==
    /\ ~protected.done
    /\ protected' = [done |-> TRUE, text |-> protect_abbrev(seg_line)]
    /\ UNCHANGED <<load_vars, note_vars, seg_line, sentences, restored, tok_vars, maint_vars, log_vars, line_vars, sess_vars>>

\* restore_abbrev(...), its last
Restore ==
    /\ protected.done /\ ~restored.done
    /\ restored' = [done |-> TRUE, text |-> restore_abbrev(protected.text)]
    /\ UNCHANGED <<load_vars, note_vars, seg_line, sentences, protected, tok_vars, maint_vars, log_vars, line_vars, sess_vars>>

NextProtect == Protect \/ Restore

SpecProtect == InitProtect /\ [][NextProtect]_vars

-----------------------------------------------------------------------------
(* logging_util.py : get_logger, and the scripts that call it              *)

MaxRecords == 9

\* logger.info(...) : every handler of the logger writes the record
log_info(st) ==
    [st EXCEPT !.file.records = @ + st.lg.handlers, !.copies = st.lg.handlers]

\* TimedRotatingFileHandler(log_path, ...) opens the file; logger.addHandler,
\* logger.addFilter, logger._initialized = True
Configure(st) ==
    [st EXCEPT !.lg = [handlers |-> @.handlers + 1, filters |-> @.filters + 1,
                       initialized |-> TRUE],
               !.file.exists = TRUE]

RECURSIVE get_logger(_, _)
RECURSIVE ImportExceptionManager(_, _)

\* 'if not os.path.isfile(log_path)': the import of exception_manager and the
\* header line; an ImportError (the module is being imported) or an error of
\* _get_project_path is swallowed
WriteHeader(st, path_ok) ==
    IF st.em = "importing" THEN st
    ELSE LET st1 == ImportExceptionManager(st, path_ok)
         IN  IF path_ok
             THEN [st1 EXCEPT !.proj = get_project_path_effect(@),
                              !.file = [exists |-> TRUE, header |-> TRUE,
                                        records |-> @.records]]
             ELSE st1

get_logger(st, path_ok) ==
    IF st.lg.initialized THEN st
    ELSE Configure(IF st.file.exists THEN st ELSE WriteHeader(st, path_ok))

\* import exception_manager: the module body runs once, it calls get_logger
\* and logs 'Exception manager initialised'
ImportExceptionManager(st, path_ok) ==
    IF st.em # "absent" THEN st
    ELSE [log_info(get_logger([st EXCEPT !.em = "importing"], path_ok))
             EXCEPT !.em = "loaded"]

LogState == [lg |-> logger, em |-> em_module, file |-> log_file,
             copies |-> copies, proj |-> project_file]

SetLogState(st) ==
    /\ logger' = st.lg
    /\ em_module' = st.em
    /\ log_file' = st.file
    /\ copies' = st.copies
    /\ project_file' = st.proj
    /\ UNCHANGED <<system_file, cache, dict_order, load_result>>
    /\ UNCHANGED <<note_vars, seg_vars, tok_vars, maint_vars, line_vars, sess_vars>>

\* Convert To Lowercase starts: get_logger, LOGGER.info('note processed'),
\* then import exception_manager
ConvertStarts(path_ok) ==
    /\ log_file.records + 3 <= MaxRecords
    /\ SetLogState(ImportExceptionManager(log_info(get_logger(LogState, path_ok)), path_ok))

\* Configure Exceptions starts: from exception_manager import ..., then
\* get_logger
ConfigureStarts(path_ok) ==
    /\ log_file.records + 3 <= MaxRecords
    /\ SetLogState(get_logger(ImportExceptionManager(LogState, path_ok), path_ok))

\* a script logs a record through the logger it got
LogRecord ==
    /\ logger.initialized
    /\ log_file.records + 3 <= MaxRecords
    /\ SetLogState(log_info(LogState))

\* the script ends and the next one gets a fresh interpreter; the file stays
EngineEnds ==
    /\ logger.initialized
    /\ SetLogState([LogState EXCEPT !.lg = NewLogger, !.em = "absent", !.copies = 0])

InitLogger ==
    /\ system_file = NoFile
    /\ project_file \in {NoFile, JArr(<<>>), JArr(<<JStr(w_Foo)>>)}
    /\ dict_order = "insertion"
    /\ cache = None
    /\ load_result = "none"
    /\ logger = NewLogger
    /\ em_module = "absent"
    /\ log_file \in {NoLogFile, [exists |-> TRUE, header |-> TRUE, records |-> 0]}
    /\ copies = 0
    /\ NotesIdle /\ SegIdle /\ TokIdle /\ MaintIdle /\ LineIdle /\ NoSessions

NextLogger ==
    \/ \E path_ok \in BOOLEAN : ConvertStarts(path_ok)
    \/ \E path_ok \in BOOLEAN : ConfigureStarts(path_ok)
    \/ LogRecord
    \/ EngineEnds

SpecLogger == InitLogger /\ [][NextLogger]_vars

-----------------------------------------------------------------------------
(* script.py : the loop body of convert_text_note_text for one line        *)

ChangePair(old, new) == [old |-> old, new |-> new]

\* sent = restore_literals(apply_strict_sentence_case(line))
SentOf(line, stems, regex_map) ==
    restore_literals(apply_strict_sentence_case(line, stems), regex_map)

\* the tokens the rebuild loop appends: applier.enforce(tok) for a word token
EnforceToks(sent_toks, applier, ord) ==
    [i \in 1..Len(sent_toks) |->
        IF sent_toks[i].w THEN enforce(applier, sent_toks[i].t, ord)
        ELSE sent_toks[i].t] \o <<>>

\* lines 397-422 for one line: what the loop body leaves, given the values
\* of its local names
LoopBody(line, sent, orig_toks, sent_toks, new_toks) ==
    IF is_bulleted_or_numbered_line(line)
    THEN [done |-> TRUE, listed |-> TRUE, sent |-> <<>>, orig_toks |-> <<>>,
          sent_toks |-> <<>>, changes |-> <<>>, rebuilt |-> line]
    ELSE LET n == IF Len(orig_toks) < Len(sent_toks) THEN Len(orig_toks)
                  ELSE Len(sent_toks)
             \* zip(orig_toks, sent_toks): io and iw and old != new
             cased_at == SelectSeq([i \in 1..n |-> i],
                             LAMBDA i : /\ orig_toks[i].w /\ sent_toks[i].w
                                        /\ orig_toks[i].t # sent_toks[i].t)
             \* new_tok != tok
             enforced_at == SelectSeq([i \in 1..Len(sent_toks) |-> i],
                                LAMBDA i : new_toks[i] # sent_toks[i].t)
         IN  [done |-> TRUE, listed |-> FALSE, sent |-> sent,
              orig_toks |-> orig_toks, sent_toks |-> sent_toks,
              changes |-> [k \in 1..Len(cased_at) |->
                              ChangePair(orig_toks[cased_at[k]].t,
                                         sent_toks[cased_at[k]].t)]
                          \o [k \in 1..Len(enforced_at) |->
                                 ChangePair(sent_toks[enforced_at[k]].t,
                                            new_toks[enforced_at[k]])],
              rebuilt |-> Concat(new_toks)]

w_a_b   == <<"a","_","b">>
w_OK_GO == <<"O","K","."," ","G","O">>
w_4_NO  == <<"4"," ","N","O">>
w_UB    == <<"1","0","0","U","B">>

LineBefore == {<<>>, <<" ">>, m_dash, t_see}
LineWords  == {w_bs_, w_a_b, w_OK_GO, w_4_NO, w_m2ub2, w_UB, w_architects, s_uno}
LineAfter  == {<<>>, <<".">>, <<"!"," ","G","O">>}

\* lines of a protected text
LineTexts ==
    {protect_abbrev(b \o w \o a) : b \in LineBefore, w \in LineWords, a \in LineAfter}

InitLine ==
    /\ system_file = NoFile
    /\ project_file = JArr(<<JStr(w_Foo)>>)
    /\ dict_order \in DictOrders
    /\ cache = None
    /\ load_result = "none"
    /\ conv_line \in LineTexts
    /\ cased = NoText
    /\ conv = NoLine
    /\ NotesIdle /\ SegIdle /\ TokIdle /\ MaintIdle /\ LogIdle /\ NoSessions

\* sent = apply_strict_sentence_case(line)
SentenceCase ==
    /\ cache.loaded
    /\ ~cased.done
    /\ cased' = [done |-> TRUE,
                 text |-> apply_strict_sentence_case(conv_line, DottedLiterals(cache))]
    /\ UNCHANGED <<load_vars, note_vars, seg_vars, tok_vars, maint_vars, log_vars,
                   conv_line, conv, sess_vars>>

\* one pass of 'for line in text.splitlines(True)'
ConvertOneLine ==
    /\ cache.loaded
    /\ ~conv.done
    /\ \E sent \in {SentOf(conv_line, DottedLiterals(cache),
                            get_single_regexps(cache, dict_order))} :
       \E orig_toks \in {tokenize_with_punct(conv_line)} :
       \E sent_toks \in {tokenize_with_punct(sent)} :
       \E new_toks \in {EnforceToks(sent_toks, ExceptionApplier(cache), dict_order)} :
           conv' = LoopBody(conv_line, sent, orig_toks, sent_toks, new_toks)
    /\ UNCHANGED <<load_vars, note_vars, seg_vars, tok_vars, maint_vars, log_vars,
                   conv_line, cased, sess_vars>>

NextLine == LoadAll \/ SentenceCase \/ ConvertOneLine

SpecLine == InitLine /\ [][NextLine]_vars

-----------------------------------------------------------------------------
(* ExceptionApplier.enforce applied to one plain word                      *)

w_spans == <<"s","p","a","n","s">>
w_ubcol == <<"u","b","c","o","l">>
w_colub == <<"c","o","l","u","b">>
w_pqr   == <<"p","q","r">>

PlainWords == {w_spans, c_New, w_Foo, w_Bar, w_ms, w_ubcol, w_colub, w_pqr}

InitWords ==
    /\ system_file \in {NoFile, JObj(<<[k |-> c_New, val |-> JArr(<<JStr(w_Foo)>>)]>>)}
    /\ project_file \in {JArr(<<>>), JArr(<<JStr(w_Bar)>>)}
    /\ dict_order \in DictOrders
    /\ cache = None
    /\ load_result = "none"
    /\ \E w \in PlainWords : word_token \in {LowerStr(w), UpperStr(w)}
    /\ enforced = [done |-> FALSE, text |-> <<>>]
    /\ NotesIdle /\ SegIdle /\ MaintIdle /\ LogIdle /\ LineIdle /\ NoSessions

SpecWords == InitWords /\ [][NextEnforce]_vars

-----------------------------------------------------------------------------
(* Configure Exceptions script.py : two sessions on one project file       *)

SessionIds == {1, 2}
SessWords  == {w_Foo, w_Bar}

\* menu choices one session makes before the manager is closed
MaxOps == 2

\* a session at the action menu: no list loaded, nothing reported yet;
\* failed: the load of the current choice failed, misread: some load did
AtMenu == [pc |-> "menu", kind |-> "none", flat |-> <<>>, failed |-> FALSE,
           misread |-> FALSE, ops |-> 0,
           added |-> {}, deleted |-> {}, edited |-> {}]

\* the string entries of a loaded list
Entries(fl) == {fl[i].v : i \in {j \in 1..Len(fl) : fl[j].t = "str"}}

\* back at 'while True' with what the session has reported so far
Continue(s, added, deleted, edited) ==
    sessions' = [sessions EXCEPT ![s] = [pc |-> "menu", kind |-> "none", flat |-> <<>>,
                                         failed |-> @.failed, misread |-> @.misread,
                                         ops |-> @.ops,
                                         added |-> added,
                                         deleted |-> deleted, edited |-> edited]]

\* an action is chosen and flat_list = _load_json(PROJECT_JSON) runs; the
\* read fails when the file cannot be opened or is no list, and gives [];
\* edit and delete 'continue' on an empty list, otherwise a dialog opens
ChooseAction(s, kind, readable) ==
    LET fl == IF readable THEN script_load_json(project_file) ELSE <<>>
        failed == ~readable \/ project_file.t # "arr"
    IN  /\ sessions # <<>>
        /\ sessions[s].pc = "menu"
        /\ sessions[s].ops < MaxOps
        /\ sessions' = [sessions EXCEPT
               ![s] = IF kind # "add" /\ fl = <<>>
                      THEN [@ EXCEPT !.failed = failed, !.misread = @ \/ failed,
                                     !.ops = @ + 1]
                      ELSE [@ EXCEPT !.pc = "asked", !.kind = kind, !.flat = fl,
                                     !.failed = failed, !.misread = @ \/ failed,
                                     !.ops = @ + 1]]
        /\ UNCHANGED <<load_vars, note_vars, seg_vars, tok_vars, maint_vars, log_vars,
                       line_vars>>

\* the text is entered: duplicate check on the list loaded before the
\* dialog, append, _save_json, clear_cache
FinishAdd(s, new_exc, written) ==
    /\ sessions # <<>>
    /\ sessions[s].pc = "asked" /\ sessions[s].kind = "add"
    /\ LET me  == sessions[s]
           fl  == me.flat
           dup == AnyLower(fl, {i \in 1..Len(fl) :
                                   fl[i].t = "str" /\ LowerStr(fl[i].v) = LowerStr(new_exc)})
       IN  /\ Len(fl) < MaxList
           /\ IF new_exc = <<>> \/ dup # "false"
              THEN NothingSaved /\ Continue(s, me.added, me.deleted, me.edited)
              ELSE /\ Saved(Append(fl, JStr(new_exc)), written)
                   /\ Continue(s, IF written THEN me.added \cup {new_exc} ELSE me.added,
                               me.deleted, me.edited)
    /\ UNCHANGED <<system_file, dict_order, note_vars, seg_vars, tok_vars, maint_vars,
                   log_vars, line_vars>>

\* the entry is selected and the new value entered: collision check,
\* replacement in the list loaded before the dialogs, _save_json, clear_cache
FinishEdit(s, old_val, new_val, written) ==
    /\ sessions # <<>>
    /\ sessions[s].pc = "asked" /\ sessions[s].kind = "edit"
    /\ LET me  == sessions[s]
           fl  == me.flat
           dup == AnyLower(fl, {i \in 1..Len(fl) :
                                   /\ fl[i].t = "str"
                                   /\ LowerStr(fl[i].v) = LowerStr(new_val)
                                   /\ LowerStr(fl[i].v) # LowerStr(old_val)})
       IN  /\ old_val \in Entries(fl)
           /\ IF new_val = <<>> \/ dup # "false"
              THEN NothingSaved /\ Continue(s, me.added, me.deleted, me.edited)
              ELSE /\ Saved([fl EXCEPT ![IndexOf(fl, JStr(old_val))] = JStr(new_val)],
                            written)
                   /\ Continue(s, me.added, me.deleted,
                               IF written THEN me.edited \cup {old_val, new_val}
                               ELSE me.edited)
    /\ UNCHANGED <<system_file, dict_order, note_vars, seg_vars, tok_vars, maint_vars,
                   log_vars, line_vars>>

\* the entry is selected and the question answered: flat_list.remove on the
\* list loaded before the dialogs, _save_json, clear_cache
FinishDelete(s, to_delete, confirm, written) ==
    /\ sessions # <<>>
    /\ sessions[s].pc = "asked" /\ sessions[s].kind = "delete"
    /\ LET me == sessions[s]
           fl == me.flat
       IN  /\ to_delete \in Entries(fl)
           /\ IF ~confirm
              THEN NothingSaved /\ Continue(s, me.added, me.deleted, me.edited)
              ELSE /\ Saved(Remove(fl, JStr(to_delete)), written)
                   /\ Continue(s, me.added,
                               IF written THEN me.deleted \cup {to_delete}
                               ELSE me.deleted,
                               me.edited)
    /\ UNCHANGED <<system_file, dict_order, note_vars, seg_vars, tok_vars, maint_vars,
                   log_vars, line_vars>>

SessFiles == {JArr(<<>>), JArr(<<JStr(w_Foo)>>), JObj(<<>>)}

InitSessions ==
    /\ system_file = NoFile
    /\ project_file \in SessFiles
    /\ dict_order = "insertion"
    /\ cache = None
    /\ load_result = "none"
    /\ sessions = [s \in SessionIds |-> AtMenu]
    /\ NotesIdle /\ SegIdle /\ TokIdle /\ MaintIdle /\ LogIdle /\ LineIdle

NextSessions ==
    \/ \E s \in SessionIds : \E kind \in {"add", "edit", "delete"} :
       \E readable \in BOOLEAN : ChooseAction(s, kind, readable)
    \/ \E s \in SessionIds : \E new_exc \in SessWords \cup {<<>>} :
       \E written \in BOOLEAN : FinishAdd(s, new_exc, written)
    \/ \E s \in SessionIds : \E old_val \in SessWords :
       \E new_val \in SessWords \cup {<<>>} : \E written \in BOOLEAN :
           FinishEdit(s, old_val, new_val, written)
    \/ \E s \in SessionIds : \E to_delete \in SessWords : \E confirm \in BOOLEAN :
       \E written \in BOOLEAN : FinishDelete(s, to_delete, confirm, written)

SpecSessions == InitSessions /\ [][NextSessions]_vars

-----------------------------------------------------------------------------
(* Claims about the catalogue                                              *)

MergedView(data) == MergedLiterals(data.merged) \o data.project

C4_MergedViewUnique ==
    cache.loaded =>
        LET view == MergedView(cache)
        IN  \A i, j \in 1..Len(view) :
                i < j => LowerStr(view[i]) # LowerStr(view[j])

\* C4 amended: no two entries of one category are case-insensitively equal,
\* and no entry of any category is case-insensitively equal to a project
\* literal
C4_CategoryUnique ==
    cache.loaded =>
        /\ \A c \in 1..Len(cache.merged) :
               LET items == cache.merged[c].items
               IN  \A i, j \in 1..Len(items) :
                       i < j => LowerStr(items[i]) # LowerStr(items[j])
        /\ LET all == MergedLiterals(cache.merged)
           IN  \A i \in 1..Len(all) : \A k \in 1..Len(cache.project) :
                   LowerStr(all[i]) # LowerStr(cache.project[k])

\* C4 witness: a system tier that repeats "ms" and "foo" inside one category
\* and a project literal equal to a default literal were merged
C4_Witness ==
    /\ cache.loaded
    /\ system_file = SysFooInBolts
    /\ \E k \in 1..Len(cache.project) : cache.project[k] = w_As_built

\* C5 as stated: load_all never raises, and the catalogue it returns holds
\* every default-tier literal (in some letter case)
C5_GracefulLoad ==
    /\ load_result # "raised"
    /\ cache.loaded =>
           LET view == MergedView(cache)
           IN  \A c \in 1..Len(DEFAULT_EXCEPTIONS) :
                   \A i \in 1..Len(DEFAULT_EXCEPTIONS[c].items) :
                       \E j \in 1..Len(view) :
                           LowerStr(view[j]) = LowerStr(DEFAULT_EXCEPTIONS[c].items[i])

-----------------------------------------------------------------------------
(* Claims about the converter                                              *)

FreeNotes == {i \in 1..Len(notes) : ~notes[i].grouped}

\* the whitespace-separated words of a line
WordsOf(l) ==
    LET starts == SelectSeq([i \in 1..Len(l) |-> i],
                      LAMBDA i : ~IsSpace(l[i]) /\ (i = 1 \/ IsSpace(l[i - 1])))
    IN  [k \in 1..Len(starts) |->
            SubSeq(l, starts[k], RunEnd(l, starts[k], LAMBDA c : c # "" /\ ~IsSpace(c)))] \o <<>>

\* the single-word literals of the merged catalogue
SingleLiterals(data) ==
    LET view == MergedView(data)
    IN  {view[i] : i \in {j \in 1..Len(view) : ~Contains(view[j], " ")}}

\* C1 as stated: a second run of the converter over its own output changes
\* no note: enforce_text(enforce_text(x)) = enforce_text(x)
C1_Idempotent ==
    runs >= 2 => \A i \in FreeNotes : notes[i].text = old_texts[i]

\* C2 as stated: a catalogue literal that stands as a word of a non-list
\* line, in any letter case, stands in its canonical casing as the same word
\* of the same line of the output (lines whose word count the run keeps)
C2_LiteralPreserved ==
    runs >= 1 =>
        \A i \in FreeNotes :
            LET old == splitlines(old_texts[i])
                new == splitlines(notes[i].text)
            IN  \A m \in 1..Len(old) :
                    (/\ ~is_bulleted_or_numbered_line(old[m])
                     /\ m <= Len(new)
                     /\ Len(WordsOf(new[m])) = Len(WordsOf(old[m])))
                    => \A k \in 1..Len(WordsOf(old[m])) :
                           \A lit \in SingleLiterals(cache) :
                               LowerStr(WordsOf(old[m])[k]) = LowerStr(lit)
                                   => WordsOf(new[m])[k] = lit

\* C6 as stated: every list line of a note is the same line, character for
\* character, of the text the run writes back
C6_ListLinesUntouched ==
    runs >= 1 =>
        \A i \in FreeNotes :
            LET old == splitlines(old_texts[i])
                new == splitlines(notes[i].text)
            IN  \A m \in 1..Len(old) :
                    is_bulleted_or_numbered_line(old[m])
                        => m <= Len(new) /\ new[m] = old[m]

\* a quantity in line l: digits i..d, whitespace, 'no' at k in any case
IsQuantity(l, i, d, k) ==
    /\ i <= d /\ d < k
    /\ \A j \in i..d : IsDigit(l[j])
    /\ \A j \in (d + 1)..(k - 1) : IsSpace(l[j])
    /\ Lower(At(l, k)) = "n" /\ Lower(At(l, k + 1)) = "o"

QuantityHasDot(l, k) == At(l, k + 2) = "."

\* '<digits>No' with the period the input had
QuantityText(l, i, d, k) ==
    SubSeq(l, i, d) \o <<"N", "o">> \o (IF QuantityHasDot(l, k) THEN <<".">> ELSE <<>>)

\* line l holds the text t, not followed by a period unless t ends in one
HoldsQuantity(l, t, dot) ==
    \E j \in 1..Len(l) :
        /\ j + Len(t) - 1 <= Len(l)
        /\ SubSeq(l, j, j + Len(t) - 1) = t
        /\ ~dot => At(l, j + Len(t)) # "."

IsStandaloneQuantity(l, i, d, k) ==
    /\ IsQuantity(l, i, d, k)
    /\ i = 1 \/ IsSpace(l[i - 1])
    /\ LET e == IF QuantityHasDot(l, k) THEN k + 2 ELSE k + 1
       IN  e = Len(l) \/ IsSpace(At(l, e + 1))

\* line l holds the text t as a word of its own
HoldsStandalone(l, t) ==
    \E j \in 1..Len(l) :
        /\ j + Len(t) - 1 <= Len(l)
        /\ SubSeq(l, j, j + Len(t) - 1) = t
        /\ j = 1 \/ IsSpace(l[j - 1])
        /\ j + Len(t) - 1 = Len(l) \/ IsSpace(At(l, j + Len(t)))

-----------------------------------------------------------------------------
(* Claims about the sentence segmenter                                     *)

\* lines of the form '<words> u.n.o. <words>.'
AbbreviationLines ==
    {b \o abbr \o sp \o t_check :
        b \in SegBefore \ {<<>>}, abbr \in {s_uno, UpperStr(s_uno)},
        sp \in SegSpaces \ {<<>>}}

BoundaryPositions(sents) ==
    {Len(Concat([j \in 1..(m - 1) |-> sents[j].body \o sents[j].delim] \o <<>>))
         + Len(sents[m].body) + 1 :
        m \in {n \in 1..Len(sents) : sents[n].delim # <<>>}}

\* C8 as stated: a mark that is followed by whitespace and directly preceded
\* by the stem of a dotted literal (any case, at a word boundary) is no
\* sentence boundary
C8_StemNeverBoundary ==
    sentences # <<>> =>
        LET text == protect_abbrev(seg_line)
        IN  \A i \in 1..Len(text) :
                (/\ text[i] \in {".", "?", "!"}
                 /\ IsSpace(At(text, i + 1))
                 /\ \E stem \in DottedLiterals(cache) :
                        /\ MatchCI(text, i - Len(stem), stem)
                        /\ WordBoundary(text, i - Len(stem)))
                => i \notin BoundaryPositions(sentences)

-----------------------------------------------------------------------------
(* Claims about enforce                                                    *)

\* the canonical unit a spelling stands for
CanonicalUnit(u) ==
    unit_map[CHOOSE i \in 1..Len(unit_map) :
                 LowerStr(AsciiExponent(unit_map[i].canon)) = LowerStr(AsciiExponent(u))].canon

\* C9 as stated: for a token <number><unit>, the unit in any letter case and
\* with either spelling of the exponent, enforce returns the number as it
\* is, followed by the canonical unit with the superscript
C9_UnitCanonical ==
    enforced.done =>
        LET n == RunEnd(word_token, 1, LAMBDA c : IsDigit(c) \/ c = ".")
        IN  enforced.text = SubSeq(word_token, 1, n)
                            \o CanonicalUnit(SubSeq(word_token, n + 1, Len(word_token)))

-----------------------------------------------------------------------------
(* Claims about steel profiles                                             *)

LowerSeparators(p) == [k \in 1..Len(p) |-> IF IsX(p[k]) THEN "x" ELSE p[k]] \o <<>>

\* C11 as stated: for a token <number>[x<number>]*<code><optional number>,
\* the code any of the thirteen in any letter case, enforce returns the
\* numbers as they are, every separator x in lower case and the code in
\* upper case
C11_ProfileCanonical ==
    enforced.done =>
        \A p \in ProfileDims : \A c \in CodeSpellings : \A t \in ProfileTrailing :
            word_token = p \o c \o t
                => enforced.text = LowerSeparators(p) \o UpperStr(c) \o t

\* C11 amended: the same for every code but X; an x that stands where the
\* code stands is written in lower case like the separators
C11_ProfileCanonicalButX ==
    enforced.done =>
        \A p \in ProfileDims : \A c \in CodeSpellings : \A t \in ProfileTrailing :
            word_token = p \o c \o t
                => enforced.text = LowerSeparators(p)
                                   \o (IF IsX(c[1]) THEN <<"x">> ELSE UpperStr(c)) \o t

\* enforce has turned 100X100x6shs into 100x100x6SHS
C11_Witness ==
    /\ enforced.done
    /\ word_token = n_100 \o <<"X">> \o n_100 \o <<"x">> \o n_6 \o <<"s","h","s">>
    /\ enforced.text = n_100 \o <<"x">> \o n_100 \o <<"x">> \o n_6 \o <<"S","H","S">>

-----------------------------------------------------------------------------
(* Claims about possessive forms                                           *)

\* form k of the map stands at j in text, in any case and with either
\* apostrophe (contractor's inside sub-contractor's is not a form of its own)
PossessiveAt(text, j, k) ==
    /\ \E a \in Apostrophes : MatchCI(text, j, Possessive(PossessiveOwners[k], a))
    /\ PossessiveOwners[k] = p_contractor => ~MatchCI(text, j - 4, <<"s","u","b","-">>)

\* C12: a possessive form of the input, in any case and with either
\* apostrophe, stands in the text written back as its one canonical form,
\* under every order of the map
C12_PossessiveCanonical ==
    runs = 1 =>
        \A i \in FreeNotes :
            \A j \in 1..Len(old_texts[i]) : \A k \in 1..5 :
                PossessiveAt(old_texts[i], j, k) =>
                    SubSeq(notes[i].text, j, j + Len(PossessiveOwners[k]) + 1)
                        = PossessiveCanon(PossessiveOwners[k])

-----------------------------------------------------------------------------
(* Claims about multi-word literals                                        *)

\* the literals of the catalogue with a space in them
MultiLiterals(data) ==
    LET view == MergedView(data)
    IN  {view[i] : i \in {j \in 1..Len(view) : Contains(view[j], " ")}}

\* the run has written literal lit, in its canonical casing, wherever the
\* input held it in any casing
PhraseKept(lit) ==
    \A i \in FreeNotes :
        \A j \in 1..Len(old_texts[i]) :
            MatchCI(old_texts[i], j, lit)
                => SubSeq(notes[i].text, j, j + Len(lit) - 1) = lit

\* C13: with a multi-word literal M and a single-word literal W that is
\* one of M's words in the catalogue, every occurrence of M in the input,
\* in any case, is output in M's casing
C13_PhraseOverWord ==
    runs = 1 =>
        \A M \in MultiLiterals(cache) : \A W \in SingleLiterals(cache) :
            (\E k \in 1..Len(WordsOf(M)) : LowerStr(WordsOf(M)[k]) = LowerStr(W))
                => PhraseKept(M)

\* B's phrase lies in A's phrase, in another casing
HeldInOtherCasing(B, A) ==
    /\ Len(B) < Len(A)
    /\ \E j \in 1..Len(A) : MatchCI(A, j, B) /\ SubSeq(A, j, j + Len(B) - 1) # B

\* C14: with two multi-word literals A and B in the catalogue, B held in A
\* in another casing, every occurrence of A in the input, in any case, is
\* output in A's casing
C14_LongerPhraseKept ==
    runs = 1 =>
        \A A \in MultiLiterals(cache) : \A B \in MultiLiterals(cache) :
            HeldInOtherCasing(B, A) => PhraseKept(A)

-----------------------------------------------------------------------------
(* Claims about the maintenance operations                                 *)

AllStrings(fl) == \A i \in 1..Len(fl) : fl[i].t = "str"

\* the text entered is, in lower case, an entry of the list read
AddCollides ==
    /\ op.kind = "add" /\ op.new # <<>>
    /\ \E i \in 1..Len(flat_list) : LowerStr(flat_list[i].v) = LowerStr(op.new)

\* the new value is, in lower case, an entry other than the edited one
EditCollides ==
    /\ op.kind = "edit" /\ op.new # <<>>
    /\ \E i \in 1..Len(flat_list) :
           /\ i # IndexOf(flat_list, JStr(op.old))
           /\ LowerStr(flat_list[i].v) = LowerStr(op.new)

\* C15 as stated: on a project list of strings, an add whose text equals an
\* entry in lower case, and an edit whose new value equals another entry in
\* lower case, are rejected and leave the project file as it was
C15_DuplicateRejected ==
    (AllStrings(flat_list) /\ (AddCollides \/ EditCollides))
        => op.outcome = "rejected" /\ project_file = JArr(flat_list)

\* a loaded cache is the catalogue of the files as they are now
C16_Fresh ==
    cache.loaded => cache = load_all(system_file, project_file, dict_order).cache

\* a step between two loaded caches keeps the catalogue
C16_Kept == (cache.loaded /\ cache'.loaded) => cache' = cache

\* C16: no catalogue cached before a mutation is served after it (the cache
\* a load_all finds is the catalogue of the project list as last saved), and
\* between two mutations load_all returns the same cached catalogue
C16_CacheInvalidated == []C16_Fresh /\ [][C16_Kept]_vars

\* Bar was added to [Foo] while a catalogue could be cached, and the next
\* load_all has read [Foo, Bar]
C16_Witness ==
    /\ op = Done("add", <<>>, w_Bar, "saved")
    /\ flat_list = <<JStr(w_Foo)>>
    /\ cache.loaded
    /\ cache.project = <<w_Foo, w_Bar>>

\* the project list as a reload reads it
Reloaded == script_load_json(project_file)

\* the saved list is the list read with new appended / with the edited
\* entry replaced in place
AddAndEditInPlace ==
    /\ op.kind = "add" => Reloaded = Append(flat_list, JStr(op.new))
    /\ op.kind = "edit" =>
           Reloaded = [flat_list EXCEPT ![IndexOf(flat_list, JStr(op.old))] = JStr(op.new)]

\* C17 as stated: after a saved add, edit or delete and a reload, the other
\* entries are there once per occurrence and in their order; add appends,
\* edit replaces in place, and the deleted literal is no longer in the list
C17_OrderPreserved ==
    op.outcome = "saved" =>
        /\ AddAndEditInPlace
        /\ op.kind = "delete" =>
               Reloaded = SelectSeq(flat_list, LAMBDA e : e # JStr(op.old))

\* C17 amended: delete removes the first entry equal to the selected
\* literal; the literal is no longer in the list when the list held it once
C17_OrderPreservedFirstRemoved ==
    op.outcome = "saved" =>
        /\ AddAndEditInPlace
        /\ op.kind = "delete" =>
               LET i == IndexOf(flat_list, JStr(op.old))
               IN  Reloaded = SubSeq(flat_list, 1, i - 1)
                              \o SubSeq(flat_list, i + 1, Len(flat_list))

\* Foo was deleted from [Foo, Bar] and the reload reads [Bar]
C17_Witness ==
    /\ op = Done("delete", w_Foo, <<>>, "saved")
    /\ flat_list = <<JStr(w_Foo), JStr(w_Bar)>>
    /\ Reloaded = <<JStr(w_Bar)>>

-----------------------------------------------------------------------------
(* Claims about errors during a run                                        *)

\* C18 as stated: when enforce raises for a token of one note, the run is
\* not aborted or rolled back: it commits, and every other free note holds
\* its converted text
C18_TokenErrorRecovered ==
    txn.raised # 0 =>
        /\ txn.state = "committed"
        /\ \A j \in FreeNotes \ {txn.raised} :
               notes[j].text = enforce_text(old_texts[j], cache, dict_order)

-----------------------------------------------------------------------------
(* Claims about protect_abbrev and restore_abbrev                          *)

\* C19: for a text without the safe dot U+FE52,
\* restore_abbrev(protect_abbrev(x)) = x
C19_RoundTrip ==
    (restored.done /\ ~Contains(seg_line, ABBR_SAFE_DOT)) => restored.text = seg_line

\* 'see u.n.o.x t.b.c.s' had the dots of both abbreviations made safe and
\* was restored
C19_Witness ==
    /\ restored.done
    /\ seg_line = t_see \o s_uno \o <<"x"," ">> \o s_tbc \o <<"s">>
    /\ protected.text = t_see \o <<"u","sdot","n","sdot","o","sdot","x"," ",
                                   "t","sdot","b","sdot","c","sdot","s">>
    /\ restored.text = seg_line

-----------------------------------------------------------------------------
(* Claims about the order of the replacement rules                         *)

\* the group of a rule of REGEX_MAP, read off the rule: 1 a word between
\* word boundaries, 2 a single word without anchors, 3 a phrase with a
\* space, 4 the quantity rule and the dotted patterns
RuleGroup(rule) ==
    IF rule.kind = "qty" THEN 4
    ELSE IF rule.lb /\ rule.rb THEN 1
    ELSE IF rule.lb THEN 4
    ELSE IF Contains(rule.pat, " ") THEN 3
    ELSE 2

\* the rules of one group, in the order they have in the list
RulesOfGroup(rules, g) == SelectSeq(rules, LAMBDA r : RuleGroup(r) = g)

\* the line after the groups of regex_map were applied one after the other,
\* and then bs -> BS and en -> EN
AppliedByGroup(line, regex_map) ==
    LET G(g)  == RulesOfGroup(regex_map, g)
        A(l, rs) == ApplyRules(l, rs, 1, Len(rs))
        tail  == <<LitRule(s_bs, <<"B","S">>, TRUE, TRUE),
                   LitRule(s_en, <<"E","N">>, TRUE, TRUE)>>
    IN  A(A(A(A(A(line, G(1)), G(2)), G(3)), G(4)), tail)

\* C20: for every catalogue, restore_literals applies the plain single-word
\* literals, then the special-character single-word literals, then the
\* multi-word phrases longest first, then <digits>No, u.n.o., T.B.C., and
\* last bs -> BS and en -> EN; no rule of a later group stands before a rule
\* of an earlier group, and every literal of the catalogue has its rule
C20_RuleOrder ==
    cache.loaded =>
        LET regex_map == get_single_regexps(cache, dict_order)
            rules     == RestoreRules(regex_map)
            n         == Len(rules)
            smap      == get_single_literals_map(cache)
            Lows(P(_)) == {smap[i].low : i \in {j \in 1..Len(smap) : P(smap[j].low)}}
            Pats(g)   == LET rs == RulesOfGroup(regex_map, g)
                         IN  {rs[i].pat : i \in 1..Len(rs)}
            NotPlain(low) == ~IsPlain(low)
        IN  /\ n = Len(regex_map) + 2
            /\ \A i \in 1..(n - 3) : RuleGroup(rules[i]) <= RuleGroup(rules[i + 1])
            /\ \A i \in 1..(n - 3) :
                   RuleGroup(rules[i]) = 3 /\ RuleGroup(rules[i + 1]) = 3
                       => Len(rules[i].pat) >= Len(rules[i + 1].pat)
            /\ Pats(1) = Lows(IsPlain)
            /\ Pats(2) = Lows(NotPlain)
            /\ Pats(3) = MultiLiterals(cache)
            /\ RulesOfGroup(regex_map, 4)
                   = <<QtyRule, LitRule(s_uno, s_uno, TRUE, FALSE),
                       LitRule(s_tbc, <<"T",".","B",".","C",".">>, TRUE, FALSE)>>
            /\ rules[n - 1] = LitRule(s_bs, <<"B","S">>, TRUE, TRUE)
            /\ rules[n] = LitRule(s_en, <<"E","N">>, TRUE, TRUE)
            /\ \A i \in 1..Len(old_texts) :
                   restore_literals(old_texts[i], regex_map)
                       = AppliedByGroup(old_texts[i], regex_map)

\* a run over 'as built survey' with the project phrases 'As Built Survey'
\* and 'AS BUILT': the longer phrase was restored first, and the shorter one
\* then rewrote its first two words
C20_Witness ==
    /\ cache.loaded
    /\ runs = 1
    /\ cache.project = <<w_As_Built_Survey, w_AS_BUILT>>
    /\ old_texts = <<LowerStr(w_As_Built_Survey)>>
    /\ Len(RulesOfGroup(get_single_regexps(cache, dict_order), 1)) > 0
    /\ Len(RulesOfGroup(get_single_regexps(cache, dict_order), 2)) > 0
    /\ restore_literals(old_texts[1], get_single_regexps(cache, dict_order))
           = w_AS_BUILT \o <<" ","S","u","r","v","e","y">>


-----------------------------------------------------------------------------
(* Claims about the run over the notes                                     *)

GroupedNotes == {i \in 1..Len(notes) : notes[i].grouped}

\* C21: in a run, a note of a group keeps its text and is counted as
\* skipped; a note outside a group has its text written only when the
\* converted text differs from the old one, and 'updated' is the number of
\* notes written
C21_GroupedSkipped ==
    txn.state = "committed" =>
        /\ \A i \in GroupedNotes : notes[i].text = old_texts[i] /\ i \notin assigned
        /\ skipped = Cardinality(GroupedNotes)
        /\ \A i \in assigned :
               /\ notes[i].text = enforce_text(old_texts[i], cache, dict_order)
               /\ notes[i].text # old_texts[i]
        /\ \A i \in (1..Len(notes)) \ assigned : notes[i].text = old_texts[i]
        /\ updated = Cardinality(assigned)

\* the grouped note 'ms' was skipped and the free note '4 no' was written
C21_Witness ==
    /\ txn.state = "committed"
    /\ runs = 1
    /\ Len(notes) = 2
    /\ notes[1] = Note(w_ms, TRUE)
    /\ enforce_text(w_ms, cache, dict_order) # w_ms
    /\ ~notes[2].grouped /\ notes[2].text # old_texts[2]
    /\ assigned = {2}
    /\ skipped = 1 /\ updated = 1


-----------------------------------------------------------------------------
(* Claims about the logger                                                 *)

\* C22: after any sequence of get_logger calls with the same name, the
\* nested call during the import of exception_manager included, the logger
\* has exactly one file handler and one src filter, and each record is
\* written once
C22_LoggerInitOnce ==
    /\ logger.initialized => logger.handlers = 1 /\ logger.filters = 1
    /\ copies <= 1


-----------------------------------------------------------------------------
(* Claims about the tokens of a line                                       *)

\* ''.join(tok for _, tok in toks)
JoinToks(toks) == Concat([i \in 1..Len(toks) |-> toks[i].t] \o <<>>)

\* C23: the token texts of tokenize_with_punct, joined in order, are the
\* line itself, for the line and for its sentence-cased form, so that the
\* rebuilt text is the tokenized text when enforce rewrote no word token
C23_LosslessTokens ==
    (conv.done /\ ~conv.listed) =>
        /\ JoinToks(conv.orig_toks) = conv_line
        /\ JoinToks(conv.sent_toks) = conv.sent
        /\ (\A i \in 1..Len(conv.sent_toks) :
                conv.sent_toks[i].w =>
                    enforce(ExceptionApplier(cache), conv.sent_toks[i].t, dict_order)
                        = conv.sent_toks[i].t)
               => conv.rebuilt = conv.sent

\* C24: for a non-list line the tokens of the line and the tokens of its
\* sentence-cased, literal-restored form have the same length and the same
\* word flags, and the change list starts with one (old, new) record for
\* every position at which the token texts differ, in order
C24_TokensAligned ==
    (conv.done /\ ~conv.listed) =>
        /\ Len(conv.orig_toks) = Len(conv.sent_toks)
        /\ \A i \in 1..Len(conv.orig_toks) : conv.orig_toks[i].w = conv.sent_toks[i].w
        /\ LET differ == SelectSeq([i \in 1..Len(conv.orig_toks) |-> i],
                             LAMBDA i : conv.orig_toks[i].t # conv.sent_toks[i].t)
           IN  /\ Len(differ) <= Len(conv.changes)
               /\ \A k \in 1..Len(differ) :
                      conv.changes[k] = ChangePair(conv.orig_toks[differ[k]].t,
                                                   conv.sent_toks[differ[k]].t)


-----------------------------------------------------------------------------
(* Claims about apply_strict_sentence_case                                 *)

\* the whitespace-separated token of body that holds position f starts here
TokenStart(body, f) ==
    CHOOSE t \in 1..f :
        /\ \A h \in t..f : ~IsSpace(body[h])
        /\ t = 1 \/ IsSpace(body[t - 1])

\* C25: apply_strict_sentence_case changes letter case only and keeps the
\* length; in every sentence the first whitespace-separated token with an
\* ASCII letter has its first character upper-cased and the rest
\* lower-cased, every other token is lower-cased, whitespace and sentence
\* delimiters are reproduced unchanged
C25_StrictSentenceCase ==
    cased.done =>
        LET out    == cased.text
            segs   == split_into_sentences(conv_line, DottedLiterals(cache))
            Off(m) == Len(Concat([j \in 1..(m - 1) |->
                                     segs[j].body \o segs[j].delim] \o <<>>))
        IN  /\ Len(out) = Len(conv_line)
            /\ LowerStr(out) = LowerStr(conv_line)
            /\ \A m \in 1..Len(segs) :
                   LET body   == segs[m].body
                       alphas == {k \in 1..Len(body) : IsAlpha(body[k])}
                       first  == CHOOSE f \in alphas : \A h \in alphas : f <= h
                   IN  /\ \A k \in 1..Len(body) :
                              out[Off(m) + k] =
                                  IF alphas # {} /\ k = TokenStart(body, first)
                                  THEN Upper(body[k])
                                  ELSE Lower(body[k])
                       /\ \A k \in 1..Len(segs[m].delim) :
                              out[Off(m) + Len(body) + k] = segs[m].delim[k]

\* '4 NO! GO': two sentences, in the first the token 'NO' after '4' was
\* capitalised, the delimiter '! ' was kept
C25_Witness ==
    /\ cased.done
    /\ conv_line = <<"4"," ","N","O","!"," ","G","O">>
    /\ Len(split_into_sentences(conv_line, DottedLiterals(cache))) = 2
    /\ cased.text = <<"4"," ","N","o","!"," ","G","o">>


-----------------------------------------------------------------------------
(* Claims about the literal and section-code steps of _enforce_core        *)

\* tok is a word that the unit, quantity, possessive and whole-token profile
\* rules leave alone
NoEarlierRule(tok) ==
    /\ convert_subscripts(tok) = tok
    /\ normalise_profile(tok) = <<>>
    /\ \A k \in 1..Len(tok) : IsAlnum(tok[k])
    /\ NumericSplit(tok) < 0
    /\ QuantitySplit(LowerStr(tok)) < 0
    /\ ~HasKey(apostrophe_map, LowerStr(tok))

\* the catalogue literals that are tok in some letter case
LiteralsFor(data, tok) == {l \in SingleLiterals(data) : LowerStr(l) = LowerStr(tok)}

c_Section_Profiles ==
    <<"S","e","c","t","i","o","n"," ","P","r","o","f","i","l","e","s"," ","&"," ",
      "S","t","e","e","l"," ","S","e","c","t","i","o","n","s">>

\* the codes of the merged category 'Section Profiles & Steel Sections'
SectionCodes(data) ==
    LET at == {i \in 1..Len(data.merged) : data.merged[i].cat = c_Section_Profiles}
    IN  UNION {{data.merged[i].items[k] : k \in 1..Len(data.merged[i].items)} : i \in at}

\* C26: the literal set of the applier is the set of single-word literals
\* of the merged catalogue and nothing else; a word that no unit, quantity,
\* possessive or profile rule takes is rewritten to the casing of a
\* catalogue literal when it is one, and is returned unchanged when it is
\* none and holds no section code
C26_EnforcerLiterals ==
    cache.loaded =>
        LET lits == ExceptionApplier(cache).literals
        IN  /\ {lits[i] : i \in 1..Len(lits)} = SingleLiterals(cache)
            /\ (enforced.done /\ NoEarlierRule(word_token)) =>
                   IF LiteralsFor(cache, word_token) # {}
                   THEN enforced.text \in LiteralsFor(cache, word_token)
                   ELSE (\A c \in SectionCodes(cache) :
                            /\ ~StartsWith(LowerStr(word_token), LowerStr(c))
                            /\ ~EndsWith(LowerStr(word_token), LowerStr(c)))
                        => enforced.text = word_token

\* C27: a word that no earlier rule takes and that starts or ends, in lower
\* case, with a code of the section-profile category comes back with that
\* part in the code's casing and the rest untouched
C27_EmbeddedProfile ==
    (/\ enforced.done
     /\ NoEarlierRule(word_token)
     /\ LiteralsFor(cache, word_token) = {}
     /\ \A i \in 1..Len(ExceptionApplier(cache).literals) :
            LowerStr(ExceptionApplier(cache).literals[i]) # LowerStr(word_token))
        => \A c \in SectionCodes(cache) :
               /\ StartsWith(LowerStr(word_token), LowerStr(c)) =>
                      \E d \in SectionCodes(cache) :
                          /\ StartsWith(LowerStr(word_token), LowerStr(d))
                          /\ enforced.text
                                 = d \o SubSeq(word_token, Len(d) + 1, Len(word_token))
               /\ (/\ EndsWith(LowerStr(word_token), LowerStr(c))
                   /\ \A d \in SectionCodes(cache) :
                          ~StartsWith(LowerStr(word_token), LowerStr(d))) =>
                      \E d \in SectionCodes(cache) :
                          /\ EndsWith(LowerStr(word_token), LowerStr(d))
                          /\ enforced.text
                                 = SubSeq(word_token, 1, Len(word_token) - Len(d)) \o d


-----------------------------------------------------------------------------
(* Claims about duplicates in the project list                             *)

\* no two entries of the list in the file are equal in lower case
NoDuplicates(file) ==
    LET fl == script_load_json(file)
    IN  \A i, j \in 1..Len(fl) :
            (/\ fl[i].t = "str" /\ fl[j].t = "str"
             /\ LowerStr(fl[i].v) = LowerStr(fl[j].v)) => i = j

\* C28: an add, edit or delete, accepted or rejected, that finds a project
\* list without two case-insensitively equal entries leaves one
C28_NoDuplicates ==
    [][NoDuplicates(project_file) => NoDuplicates(project_file')]_vars

\* an entry of a list of two was edited to another casing of itself and
\* saved: the check let it pass and the list still has no duplicate
C28_Witness ==
    /\ op.kind = "edit" /\ op.outcome = "saved"
    /\ Len(flat_list) = 2
    /\ NoDuplicates(JArr(flat_list))
    /\ op.new # op.old /\ LowerStr(op.new) = LowerStr(op.old)
    /\ Len(script_load_json(project_file)) = 2
    /\ NoDuplicates(project_file)


-----------------------------------------------------------------------------
(* Claims about sessions that share the project file                       *)

InFile(lit) == lit \in Entries(script_load_json(project_file))

\* what the sessions reported as added, deleted, edited
Reported(field) == UNION {sessions[s][field] : s \in DOMAIN sessions}

\* C29: when both sessions have saved and every load read the file, every
\* literal a session reported as added (and none deleted or edited) is in
\* the file, and every literal reported as deleted (and none added or
\* edited) is not
C29_NoLostUpdate ==
    (\A s \in DOMAIN sessions : sessions[s].pc = "menu" /\ ~sessions[s].misread) =>
        /\ \A lit \in Reported("added") \ (Reported("deleted") \cup Reported("edited")) :
               InFile(lit)
        /\ \A lit \in Reported("deleted") \ (Reported("added") \cup Reported("edited")) :
               ~InFile(lit)

\* C30: an add that follows a failed load of an existing project file does
\* not replace the file by a list without the entries it held
C30_FailedLoadKeepsEntries ==
    [][\A s \in DOMAIN sessions :
          (/\ sessions[s].pc = "asked" /\ sessions[s].kind = "add"
           /\ sessions[s].failed
           /\ sessions'[s].pc = "menu")
              => Entries(script_load_json(project_file))
                     \subseteq Entries(script_load_json(project_file'))]_vars


====
